---------------------------- MODULE Spec2Model ----------------------------
(***************************************************************************)
(* A model of the ray tracer of ippSD/raytracing: the primitives' hit      *)
(* routines (Sphere, Square, Cube), the scene aggregate HittableList::hit, *)
(* the material scattering rules and the recursive integrator Ray::color.  *)
(*                                                                         *)
(* Numbers.  The program computes in f32.  The model computes in exact     *)
(* rational arithmetic: a scalar is a pair <<n, d>> in lowest terms with   *)
(* d > 0, and a square root is taken only of a rational square (Sqrt is    *)
(* undefined otherwise, and TLC stops instead of guessing).  The scenes    *)
(* and rays below are chosen so that every root the program takes is       *)
(* rational.  Rounding, NaN and infinities are outside the model.          *)
(***************************************************************************)
EXTENDS Integers, Sequences, FiniteSets, TLC

(***************************************************************************)
(* Rational scalars (the program's f32).                                   *)
(***************************************************************************)
RECURSIVE GCD(_, _)
GCD(a, b) == IF b = 0 THEN a ELSE GCD(b, a % b)

IAbs(n) == IF n < 0 THEN -n ELSE n

\* The fraction n/d (d # 0) in lowest terms with a positive denominator.
Q(n, d) ==
    LET g == GCD(IAbs(n), IAbs(d))
        s == IF d < 0 THEN -1 ELSE 1
    IN  <<(s * n) \div g, (s * d) \div g>>

R(n) == <<n, 1>>
Zero == R(0)
One == R(1)
Two == R(2)
Half == Q(1, 2)

RAdd(x, y) == Q(x[1] * y[2] + y[1] * x[2], x[2] * y[2])
RNeg(x) == <<-x[1], x[2]>>
RSub(x, y) == Q(x[1] * y[2] - y[1] * x[2], x[2] * y[2])
RMul(x, y) == Q(x[1] * y[1], x[2] * y[2])
RDiv(x, y) == Q(x[1] * y[2], x[2] * y[1])
\* x < y, by whole parts and then by the remaining fractions, so that no
\* product leaves the range of the integers.
RECURSIVE RLt(_, _)
RLt(x, y) ==
    IF x[1] \div x[2] # y[1] \div y[2] THEN x[1] \div x[2] < y[1] \div y[2]
    ELSE IF y[1] % y[2] = 0 THEN FALSE
    ELSE IF x[1] % x[2] = 0 THEN TRUE
    ELSE RLt(<< y[2], y[1] % y[2] >>, << x[2], x[1] % x[2] >>)
RGt(x, y) == RLt(y, x)
RLe(x, y) == ~RLt(y, x)
RAbs(x) == <<IAbs(x[1]), x[2]>>

\* f32::powi for the exponents the program uses.
RECURSIVE Powi(_, _)
Powi(x, i) == IF i = 0 THEN One ELSE RMul(x, Powi(x, i - 1))

\* The integer square root of a perfect square (undefined otherwise).
ISqrt(n) == CHOOSE k \in 0..n : k * k = n

IsSquare(n) == \E k \in 0..n : k * k = n

\* f32::sqrt, on the rational squares.
Sqrt(x) == <<ISqrt(x[1]), ISqrt(x[2])>>

HasSqrt(x) == x[1] >= 0 /\ IsSquare(x[1]) /\ IsSquare(x[2])

(***************************************************************************)
(* Vec3 (src/src/vectors.rs): a triple of scalars.                         *)
(***************************************************************************)
Vec(x, y, z) == <<R(x), R(y), R(z)>>
Zeros == Vec(0, 0, 0)
Ones == Vec(1, 1, 1)

VAdd(v1, v2) == <<RAdd(v1[1], v2[1]), RAdd(v1[2], v2[2]), RAdd(v1[3], v2[3])>>
VNeg(v) == <<RNeg(v[1]), RNeg(v[2]), RNeg(v[3])>>
\* Sub is add(neg).
VSub(v1, v2) == VAdd(v1, VNeg(v2))
\* Mul<Vec3>: component-wise.
VMul(v1, v2) == <<RMul(v1[1], v2[1]), RMul(v1[2], v2[2]), RMul(v1[3], v2[3])>>
\* Mul<f32>.
VScale(v, m) == <<RMul(v[1], m), RMul(v[2], m), RMul(v[3], m)>>
\* Div<f32> is mul(1/d).
VDiv(v, d) == VScale(v, RDiv(One, d))

Dot(v1, v2) == RAdd(RAdd(RMul(v1[1], v2[1]), RMul(v1[2], v2[2])), RMul(v1[3], v2[3]))
Cross(v1, v2) ==
    << RSub(RMul(v1[2], v2[3]), RMul(v1[3], v2[2])),
       RSub(RMul(v1[3], v2[1]), RMul(v1[1], v2[3])),
       RSub(RMul(v1[1], v2[2]), RMul(v1[2], v2[1])) >>
SquareLength(v) == Dot(v, v)
Length(v) == Sqrt(SquareLength(v))
UnitVector(v) == VDiv(v, Length(v))

(***************************************************************************)
(* Ray (src/src/rays.rs): origin a and direction b.                        *)
(***************************************************************************)
RayNew(a, b) == [a |-> a, b |-> b]
PointAtParameter(ray, t) == VAdd(ray.a, VScale(ray.b, t))

(***************************************************************************)
(* Option<HitRecord>: <<>> is None, <<r>> is Some(r).                      *)
(***************************************************************************)
None == <<>>
Some(r) == <<r>>
HitRecord(t, p, normal, material, hit_elem) ==
    [t |-> t, p |-> p, normal |-> normal, material |-> material, hit_elem |-> hit_elem]

\* What a hit routine hands back: its boolean and the caller's record after it.
Outcome(hit, rec) == [hit |-> hit, rec |-> rec, panic |-> FALSE]

\* An unwrap of None: the thread panics.
Panic == [hit |-> FALSE, rec |-> None, panic |-> TRUE]


(***************************************************************************)
(* Materials (src/src/materials.rs).                                       *)
(***************************************************************************)
Lambertian(albedo) == [kind |-> "Lambertian", albedo |-> albedo]
Metal(albedo, fuzz) == [kind |-> "Metal", albedo |-> albedo, fuzz |-> fuzz]
Dielectric(n) == [kind |-> "Dielectric", n |-> n]

(***************************************************************************)
(* Sphere (src/src/objects/sphere.rs).  The radius is q * sqrt(k): k = 1   *)
(* for the spheres of a scene, k = 3 for the bounding sphere of a cube,    *)
(* whose radius length * sqrt(3) / 2 is the one irrational the model keeps.*)
(***************************************************************************)
Surd(q, k) == [q |-> q, k |-> k]
\* radius.powi(2)
SurdSquare(s) == RMul(RMul(s.q, s.q), R(s.k))
\* v / radius; with k # 1 the quotient is kept as (v / q) over sqrt(k).
VDivSurd(v, s) ==
    IF s.k = 1 THEN VDiv(v, s.q) ELSE [vec |-> VDiv(v, s.q), over_sqrt |-> s.k]

SphereNew(center, radius, material) ==
    [kind |-> "Sphere", center |-> center, radius |-> radius, material |-> material]

\* The quadratic of Sphere::hit: <<a, b, c, discriminant>>.
SphereQuadratic(sphere, ray) ==
    LET r == VSub(ray.a, sphere.center)
        a == SquareLength(ray.b)
        b == RMul(Two, Dot(r, ray.b))
        c == RSub(SquareLength(r), SurdSquare(sphere.radius))
    IN  <<a, b, c, RSub(Powi(b, 2), RMul(RMul(R(4), a), c))>>

\* A variant of the selection that lets the far root win.
SphereRootFar(t1, t2, t_min, t_max) ==
    IF RLt(t_min, t2) /\ RLt(t2, t_max) THEN Some(t2)
    ELSE IF RLt(t_min, t1) /\ RLt(t1, t_max) THEN Some(t1)
    ELSE None

\* t_op of Sphere::hit: t2 when admissible, overwritten by t1 when admissible.
SphereRoot(t1, t2, t_min, t_max) ==
    LET t_op == IF RLt(t_min, t2) /\ RLt(t2, t_max) THEN Some(t2) ELSE None
    IN  IF RLt(t_min, t1) /\ RLt(t1, t_max) THEN Some(t1) ELSE t_op

\* A variant of the record whose normal is not divided by the radius.
SphereRecordRaw(sphere, ray, t) ==
    HitRecord(t, PointAtParameter(ray, t),
              VSub(PointAtParameter(ray, t), sphere.center), sphere.material, 0)

\* The record Sphere::hit writes for the root t.
SphereRecord(sphere, ray, t) ==
    HitRecord(t,
              PointAtParameter(ray, t),
              VDivSurd(VSub(PointAtParameter(ray, t), sphere.center), sphere.radius),
              sphere.material,
              0)

\* The two roots <<t1, t2>> of the quadratic q = <<a, b, c, discriminant>>.
SphereTs(q) ==
    << RDiv(RSub(RNeg(q[2]), Sqrt(q[4])), RMul(Two, q[1])),
       RDiv(RAdd(RNeg(q[2]), Sqrt(q[4])), RMul(Two, q[1])) >>

\* The match on t_op that ends Sphere::hit.
SphereMatch(sphere, ray, t_op, rec) ==
    IF t_op # None
    THEN Outcome(TRUE, Some(SphereRecord(sphere, ray, t_op[1])))
    ELSE Outcome(FALSE, rec)

\* The branch discriminant > 0 of Sphere::hit, on the roots ts.
SphereBranch(sphere, ray, t_min, t_max, rec, ts) ==
    SphereMatch(sphere, ray, SphereRoot(ts[1], ts[2], t_min, t_max), rec)

\* Sphere::hit on the quadratic q it computed.
SphereSolve(sphere, ray, t_min, t_max, rec, q) ==
    IF RGt(q[4], Zero)
    THEN SphereBranch(sphere, ray, t_min, t_max, rec, SphereTs(q))
    ELSE Outcome(FALSE, rec)

SphereHit(sphere, ray, t_min, t_max, rec) ==
    SphereSolve(sphere, ray, t_min, t_max, rec, SphereQuadratic(sphere, ray))

(***************************************************************************)
(* 3x3 linear systems (nalgebra).  On a regular matrix lu().solve and the  *)
(* pseudo-inverse both give the solution of the system, computed here by   *)
(* Cramer's rule.                                                          *)
(***************************************************************************)
\* The determinant of the matrix with columns (or rows) c1, c2, c3.
Det3(c1, c2, c3) == Dot(c1, Cross(c2, c3))

\* The j-th column of the matrix whose rows are r1, r2, r3.
Column(r1, r2, r3, j) == <<r1[j], r2[j], r3[j]>>

\* x with c1*x[1] + c2*x[2] + c3*x[3] = k; None when the matrix is singular.
Cramer(c1, c2, c3, k, det) ==
    IF det = Zero THEN None
    ELSE Some(<< RDiv(Det3(k, c2, c3), det),
                 RDiv(Det3(c1, k, c3), det),
                 RDiv(Det3(c1, c2, k), det) >>)

SolveColumns(c1, c2, c3, k) == Cramer(c1, c2, c3, k, Det3(c1, c2, c3))

(***************************************************************************)
(* Square (src/src/objects/square.rs).                                     *)
(***************************************************************************)
SquareNew(center, length, material, u, v, w) ==
    [kind |-> "Square", center |-> center, length |-> length, material |-> material,
     u |-> u, v |-> v, w |-> w]

\* A variant whose early return misses the rays that lie exactly in the plane.
SquareParallelNearOnly(square, ray) ==
    /\ Dot(square.w, ray.b) # Zero
    /\ RLt(RAbs(Dot(square.w, ray.b)), Q(1, 1000))

\* The early return of Square::hit: the ray lies in the plane.
SquareParallel(square, ray) == RLt(RAbs(Dot(square.w, ray.b)), Q(1, 1000))

\* The guard of the while loop of Square::hit: n_pp is drawn again.
NppRejected(n_pp, ray) == RGt(RAbs(Dot(n_pp, ray.b)), Q(8, 10))

\* A variant of the normal that is never flipped.
SquareNormalFixed(n, ray) == n

\* The normal Square::hit reports: -n * n.dot(b) / |n.dot(b)|.
SquareNormal(n, ray) ==
    VDiv(VScale(VNeg(n), Dot(n, ray.b)), RAbs(Dot(n, ray.b)))

\* A variant whose second equation is taken at the centre of the square.
SquareSystemCentred(square, ray, n, n_1, n_2) ==
    SolveColumns(Column(n, n_1, n_2, 1), Column(n, n_1, n_2, 2),
                 Column(n, n_1, n_2, 3),
                 <<Dot(n, square.center), Dot(n_1, square.center), Dot(n_2, ray.a)>>)

\* The system A p = b of Square::hit, A with rows n, n_1, n_2.
SquareSystem(square, ray, n, n_1, n_2) ==
    SolveColumns(Column(n, n_1, n_2, 1), Column(n, n_1, n_2, 2),
                 Column(n, n_1, n_2, 3),
                 <<Dot(n, square.center), Dot(n_1, ray.a), Dot(n_2, ray.a)>>)

\* n_2 = unit(b x n_1), and the solution of the system.
SquareSolve(square, ray, n_1) ==
    SquareSystem(square, ray, square.w, n_1, UnitVector(Cross(ray.b, n_1)))

\* t of the intersection point p.
SquareT(ray, p) == RDiv(Dot(VSub(p, ray.a), ray.b), SquareLength(ray.b))

\* A variant without the test of the projection onto v.
SquareTestsOneBound(square, ray, t_min, t_max, rec, p, t) ==
    IF RLt(t, t_min) THEN Outcome(FALSE, rec)
    ELSE IF RGt(t, t_max) THEN Outcome(FALSE, rec)
    ELSE IF RGt(RAbs(Dot(VSub(p, square.center), square.u)),
                RDiv(square.length, Two))
    THEN Outcome(FALSE, rec)
    ELSE Outcome(TRUE,
                 Some(HitRecord(t, p, SquareNormal(square.w, ray),
                                square.material, 0)))

\* The range and bounds tests of Square::hit and the record it writes.
SquareTests(square, ray, t_min, t_max, rec, p, t) ==
    IF RLt(t, t_min) THEN Outcome(FALSE, rec)
    ELSE IF RGt(t, t_max) THEN Outcome(FALSE, rec)
    ELSE IF RGt(RAbs(Dot(VSub(p, square.center), square.u)),
                RDiv(square.length, Two))
    THEN Outcome(FALSE, rec)
    ELSE IF RGt(RAbs(Dot(VSub(p, square.center), square.v)),
                RDiv(square.length, Two))
    THEN Outcome(FALSE, rec)
    ELSE Outcome(TRUE,
                 Some(HitRecord(t, p, SquareNormal(square.w, ray),
                                square.material, 0)))

\* Square::hit from a.lu().solve(&b).unwrap() on: sol is what solve returned.
SquareUnwrap(square, ray, t_min, t_max, rec, sol) ==
    IF sol = None THEN Panic
    ELSE SquareTests(square, ray, t_min, t_max, rec, sol[1], SquareT(ray, sol[1]))

\* Square::hit after its loop, with the vector n_pp the loop ended on.
SquareHit(square, ray, t_min, t_max, rec, n_pp) ==
    IF SquareParallel(square, ray) THEN Outcome(FALSE, rec)
    ELSE SquareUnwrap(square, ray, t_min, t_max, rec,
                      SquareSolve(square, ray, UnitVector(Cross(n_pp, ray.b))))

(***************************************************************************)
(* Cube (src/src/objects/cube.rs).                                         *)
(***************************************************************************)
\* Cube::new with the angle whose cosine and sine are cos and sin.
CubeNew(center, length, material, cos, sin) ==
    LET w == Vec(0, 1, 0)
        u == <<cos, Zero, sin>>
    IN  [kind |-> "Cube", center |-> center, length |-> length, material |-> material,
         u |-> u, v |-> Cross(w, u), w |-> w]

\* The bounding sphere Cube::hit builds.
CubeBoundingSphere(cube) ==
    SphereNew(cube.center, Surd(RDiv(cube.length, Two), 3), cube.material)

\* <<ei, ej, ek>> of the match on i, before ei is scaled.
CubeAxes(cube, i) ==
    CASE i = 0 -> <<cube.u, cube.v, cube.w>>
      [] i = 1 -> <<cube.v, cube.w, cube.u>>
      [] i = 2 -> <<cube.w, cube.u, cube.v>>

\* The checks of one face and the record it writes: x = pinv * k.
CubeFaceChecks(cube, ray, t_min, acc, ei, x) ==
    IF /\ RLt(RAbs(x[1]), RDiv(cube.length, Two))
       /\ RLt(RAbs(x[2]), RDiv(cube.length, Two))
       /\ RLt(t_min, x[3])
       /\ RLt(x[3], acc.t_closest)
    THEN [do_hit |-> TRUE, t_closest |-> x[3],
          rec |-> Some(HitRecord(x[3], PointAtParameter(ray, x[3]), ei,
                                 cube.material, 0))]
    ELSE acc

\* The face with outward axis ei and in-plane axes ej, ek.
CubeFaceSolve(cube, ray, t_min, acc, ei, ej, ek) ==
    IF RGt(RAbs(Det3(ej, ek, VNeg(ray.b))), Q(1, 10000))
    THEN CubeFaceChecks(cube, ray, t_min, acc, ei,
             SolveColumns(ej, ek, VNeg(ray.b),
                 VSub(VSub(ray.a, cube.center),
                      VScale(ei, RDiv(cube.length, Two))))[1])
    ELSE acc

\* One pass of the inner loop of Cube::hit: face i with sign si, on the
\* loop's state acc = [do_hit, t_closest, rec].
CubeFace(cube, ray, t_min, acc, i, si) ==
    CubeFaceSolve(cube, ray, t_min, acc, VScale(CubeAxes(cube, i)[1], R(si)),
                  CubeAxes(cube, i)[2], CubeAxes(cube, i)[3])

\* The six passes, in the program's order: i = 0, 1, 2 and si = -1, 1.
RECURSIVE CubeFaces(_, _, _, _, _)
CubeFaces(cube, ray, t_min, acc, f) ==
    IF f = 6 THEN acc
    ELSE CubeFaces(cube, ray, t_min,
                   CubeFace(cube, ray, t_min, acc, f \div 2,
                            IF f % 2 = 0 THEN -1 ELSE 1),
                   f + 1)

\* The result of Cube::hit once the loop has ended on acc.
CubeResult(acc) == Outcome(acc.do_hit, acc.rec)

\* Cube::hit after the test of the bounding sphere returned proxy.
CubeAfterProxy(cube, ray, t_min, t_max, proxy) ==
    IF proxy.hit
    THEN CubeResult(CubeFaces(cube, ray, t_min,
                              [do_hit |-> FALSE, t_closest |-> t_max,
                               rec |-> proxy.rec], 0))
    ELSE Outcome(FALSE, proxy.rec)

CubeHit(cube, ray, t_min, t_max, rec) ==
    CubeAfterProxy(cube, ray, t_min, t_max,
                   SphereHit(CubeBoundingSphere(cube), ray, t_min, t_max, rec))

\* Hittable for Form: the dispatch on the kind of primitive.
FormHit(form, ray, t_min, t_max, rec, n_pp) ==
    CASE form.kind = "Sphere" -> SphereHit(form, ray, t_min, t_max, rec)
      [] form.kind = "Cube" -> CubeHit(form, ray, t_min, t_max, rec)
      [] form.kind = "Square" -> SquareHit(form, ray, t_min, t_max, rec, n_pp)

(***************************************************************************)
(* Material::scatter (src/src/materials.rs).  Each rule hands back         *)
(* [attenuation, scattered, ok]; p is the point random_in_unit_sphere      *)
(* returned and draw the value of random::<f32>().                         *)
(***************************************************************************)
Scatter(attenuation, scattered, ok) ==
    [attenuation |-> attenuation, scattered |-> scattered, ok |-> ok]

\* MetalKind::reflect: v - 2 * n.dot(v) * n.
Reflect(v, n) == VSub(v, VScale(n, RMul(Two, Dot(n, v))))

ScatterLambertian(lambertian, ray_in, hit_rec, p) ==
    Scatter(lambertian.albedo, RayNew(hit_rec.p, VAdd(hit_rec.normal, p)), TRUE)

\* A variant of the Metal rule that never reports absorption.
ScatterMetalAlways(metal, ray_in, hit_rec, p) ==
    Scatter(metal.albedo,
            RayNew(hit_rec.p,
                   VAdd(Reflect(UnitVector(ray_in.b), hit_rec.normal), VScale(p, metal.fuzz))),
            TRUE)

ScatterMetal(metal, ray_in, hit_rec, p) ==
    LET reflected == Reflect(UnitVector(ray_in.b), hit_rec.normal)
        scattered == RayNew(hit_rec.p, VAdd(reflected, VScale(p, metal.fuzz)))
    IN  Scatter(metal.albedo, scattered, RGt(Dot(scattered.b, hit_rec.normal), Zero))

\* A variant of refract that does not bend the ray.
RefractUnbent(v, n, ni_over_nt) == UnitVector(v)

\* DielectricKind::refract: writes the refracted direction, returns true.
Refract(v, n, ni_over_nt) ==
    LET uv == UnitVector(v)
        v_out_perp == VScale(Cross(n, VNeg(Cross(n, uv))), ni_over_nt)
        v_out_norm ==
            VScale(n, RNeg(Sqrt(RSub(One, RMul(Powi(ni_over_nt, 2),
                                               SquareLength(Cross(n, uv)))))))
    IN  VAdd(v_out_perp, v_out_norm)

\* DielectricKind::schlick.
Schlick(ni_over_nt, cosine) ==
    LET r0 == Powi(RDiv(RSub(One, ni_over_nt), RAdd(One, ni_over_nt)), 2)
    IN  RAdd(r0, RMul(RSub(One, r0), Powi(RSub(One, cosine), 5)))

ScatterDielectric(dielectric, ray_in, hit_rec, draw) ==
    LET reflected == Reflect(ray_in.b, hit_rec.normal)
        leaving == RGt(Dot(ray_in.b, hit_rec.normal), Zero)
        outward_normal == IF leaving THEN VNeg(hit_rec.normal) ELSE hit_rec.normal
        ni_over_nt == IF leaving THEN dielectric.n ELSE RDiv(One, dielectric.n)
        cosine == RNeg(Dot(UnitVector(ray_in.b), outward_normal))
        sine == Sqrt(RSub(One, Powi(cosine, 2)))
    IN  IF RGt(RMul(ni_over_nt, sine), One)
        THEN Scatter(Ones, RayNew(hit_rec.p, reflected), TRUE)
        ELSE IF RLt(draw, Schlick(ni_over_nt, cosine))
        THEN Scatter(Ones, RayNew(hit_rec.p, reflected), TRUE)
        ELSE Scatter(Ones,
                     RayNew(hit_rec.p,
                            Refract(UnitVector(ray_in.b), outward_normal, ni_over_nt)),
                     TRUE)

\* The loop guard of random_in_unit_sphere: p is drawn again.
OutsideUnitSphere(p) == RLe(One, SquareLength(p))

\* The candidate random_in_unit_sphere makes of a draw of Vec3::random().
UnitSphereCandidate(r) == VSub(VScale(r, Two), Ones)

\* The p random_in_unit_sphere starts its loop with.
UnitSphereStart == Vec(2, 2, 2)

\* Material::scatter of the rules that call random_in_unit_sphere.
ScatterOpaque(material, ray_in, hit_rec, p) ==
    CASE material.kind = "Lambertian" -> ScatterLambertian(material, ray_in, hit_rec, p)
      [] material.kind = "Metal" -> ScatterMetal(material, ray_in, hit_rec, p)

(***************************************************************************)
(* Ray::color (src/src/rays.rs): the background and the accumulation.      *)
(***************************************************************************)
BACKGROUND_COLOR == <<Q(5, 10), Q(7, 10), One>>

\* A variant of the gradient with the two ends of the blend exchanged.
BackgroundSwapped(b) ==
    VAdd(VScale(Ones, RMul(Half, RAdd(UnitVector(b)[2], One))),
         VScale(BACKGROUND_COLOR, RSub(One, RMul(Half, RAdd(UnitVector(b)[2], One)))))

\* The else branch of Ray::color: the gradient seen along direction b.
Background(b) ==
    LET unit_direction == UnitVector(b)
        t == RMul(Half, RAdd(unit_direction[2], One))
    IN  VAdd(VScale(Ones, RSub(One, t)), VScale(BACKGROUND_COLOR, t))

\* A variant of the condition without the depth bound.
ColorRecursesUnbounded(d, maxd, ok) == ok

\* A variant that still recurses at the bound.
ColorRecursesAtBound(d, maxd, ok) == d <= maxd /\ ok

\* The condition under which Ray::color traces the scattered ray.
ColorRecurses(d, maxd, ok) == d < maxd /\ ok

\* A variant that passes the bounce count on unchanged.
NextDepthSame(d) == d

\* The bounce count Ray::color passes to the scattered ray.
NextDepth(d) == d + 1

\* A variant that adds the attenuation instead of multiplying by it.
AccumulateAdd(returned, att) == VAdd(returned, att)

\* What a call of Ray::color makes of the colour its scattered ray returned.
Accumulate(returned, att) == VMul(returned, att)

(***************************************************************************)
(* SurfaceFunctions (src/src/objects/mod.rs, sphere.rs, square.rs) and the *)
(* arithmetic of view_factor (src/src/radiation.rs).  The sphere takes the *)
(* sine and cosine of multiples of pi/2 only, and a quantity that carries  *)
(* a power of PI is kept as [q, pi]: the value q * PI^pi.                  *)
(***************************************************************************)
\* f32::cos and f32::sin of x * PI, for the angles the model samples.
CosPi(x) ==
    CASE x = Zero -> One
      [] x = Half -> Zero
      [] x = One -> R(-1)
      [] x = Q(3, 2) -> Zero
      [] x = Q(-1, 2) -> Zero

SinPi(x) ==
    CASE x = Zero -> Zero
      [] x = Half -> One
      [] x = One -> Zero
      [] x = Q(3, 2) -> R(-1)
      [] x = Q(-1, 2) -> R(-1)

\* q * PI^e; zero is kept without a power of PI.
WithPi(q, e) == IF q = Zero THEN [q |-> Zero, pi |-> 0] ELSE [q |-> q, pi |-> e]

\* What f32 makes of a division by zero: 0/0 and x/0.
NaN == [q |-> << 0, 0 >>, pi |-> 0]
Inf == [q |-> << 1, 0 >>, pi |-> 0]

\* Sphere::normal: lambda = 2 PI s, phi = PI (t - 1/2).
SphereNormal(s, t) ==
    << RMul(CosPi(RMul(Two, s)), CosPi(RSub(t, Half))),
       RMul(SinPi(RMul(Two, s)), CosPi(RSub(t, Half))),
       SinPi(RSub(t, Half)) >>

\* Sphere::point.
SpherePoint(sphere, s, t) ==
    VAdd(sphere.center, VScale(SphereNormal(s, t), sphere.radius.q))

\* Square::point.
SquarePoint(square, s, t) ==
    VAdd(VAdd(square.center,
              VScale(square.u, RMul(square.length, RSub(s, Half)))),
         VScale(square.v, RMul(square.length, RSub(t, Half))))

\* SurfaceFunctions for Form: point, normal, area and diff_a.
FormPoint(form, s, t) ==
    CASE form.kind = "Square" -> SquarePoint(form, s, t)
      [] form.kind = "Sphere" -> SpherePoint(form, s, t)
      [] form.kind = "Cube" -> Zeros

FormNormal(form, s, t) ==
    CASE form.kind = "Square" -> form.w
      [] form.kind = "Sphere" -> SphereNormal(s, t)
      [] form.kind = "Cube" -> Zeros

FormArea(form) ==
    CASE form.kind = "Square" -> WithPi(Powi(form.length, 2), 0)
      [] form.kind = "Sphere" -> WithPi(RMul(R(4), Powi(form.radius.q, 2)), 1)
      [] form.kind = "Cube" -> WithPi(Zero, 0)

FormDiffA(form, s, t) ==
    CASE form.kind = "Square" -> WithPi(Powi(form.length, 2), 0)
      [] form.kind = "Sphere" ->
            WithPi(RMul(RMul(Powi(form.radius.q, 2), CosPi(RSub(t, Half))), Two), 2)
      [] form.kind = "Cube" -> WithPi(Zero, 0)

\* A variant of the match on self.hit that keeps cos_beta2 whatever is hit.
VisibleCosAlways(hit, hit_rec, form_2_idx, cos_beta2) == cos_beta2

\* A variant that looks at hit_rec whatever self.hit returned.
VisibleCosLeftOver(hit, hit_rec, form_2_idx, cos_beta2) ==
    IF hit_rec # None
    THEN IF hit /\ hit_rec[1].hit_elem = form_2_idx THEN cos_beta2 ELSE Zero
    ELSE cos_beta2

\* cos_beta2 after the match on self.hit: kept when nothing is hit or when
\* the hit is on form_2, zero otherwise.
VisibleCos(hit, hit_rec, form_2_idx, cos_beta2) ==
    IF hit
    THEN IF hit_rec # None
         THEN IF hit_rec[1].hit_elem = form_2_idx THEN cos_beta2 ELSE Zero
         ELSE Zero
    ELSE cos_beta2

\* cos_beta1 after the test of the two signs.
FacingCos(cos_beta1, cos_beta2) ==
    IF RLt(cos_beta1, Zero) \/ RLt(cos_beta2, Zero) THEN Zero ELSE cos_beta1

\* cos_beta1 * cos_beta2 / l.powi(2) * da1 * da2.
SampleTerm(cos_beta1, cos_beta2, l, da1, da2) ==
    WithPi(RMul(RMul(RDiv(RMul(cos_beta1, cos_beta2), Powi(l, 2)), da1.q), da2.q),
           da1.pi + da2.pi)

\* temp + term.
AddTerm(temp, term) ==
    IF term.q = Zero THEN temp
    ELSE IF temp.q = Zero THEN term
    ELSE [q |-> RAdd(temp.q, term.q), pi |-> temp.pi]

\* temp / PI / form_1.area() / (n as f32).
Normalise(temp, area, n) ==
    IF area.q = Zero \/ n = 0
    THEN IF temp.q = Zero THEN NaN ELSE Inf
    ELSE WithPi(RDiv(RDiv(temp.q, area.q), R(n)), temp.pi - 1 - area.pi)

(***************************************************************************)
(* Bounds and inputs.                                                      *)
(***************************************************************************)
\* A scene holds at most MaxForms primitives.
MaxForms == 2
\* Ray::color is called with max_depth in 0..MaxDepthBound.
MaxDepthBound == 2
\* std::f32::MAX, the t_max of Ray::color: larger than every distance here.
F32Max == 1000000

\* The values Vec3::random() takes in the model (it draws from [0,1)^3).
RandomVecs ==
    { <<Half, Half, Half>>, <<Half, Q(3, 4), Half>>, <<Half, Zero, Zero>>,
      <<Half, Half, Zero>>, <<Zero, Zero, Half>> }

\* The values random::<f32>() takes in the model.
RandomScalars == {Zero, Half}

\* n_pp gives a basis the model can normalise: n_pp x b is not zero and the
\* lengths of n_pp x b and of b x n_1 are rational.
NppExact(n, ray) ==
    LET c == Cross(n, ray.b)
    IN  /\ c # Zeros
        /\ HasSqrt(SquareLength(c))
        /\ HasSqrt(SquareLength(Cross(ray.b, UnitVector(c))))

\* The draws of n_pp the model follows: those the loop rejects, and those it
\* can compute with exactly.
NppDraws(ray) ==
    {n \in RandomVecs : IF NppRejected(n, ray) THEN TRUE ELSE NppExact(n, ray)}

Grey == Lambertian(<<Half, Half, Half>>)
Brown == Lambertian(<<Q(4, 10), Q(2, 10), Q(1, 10)>>)
Bronze == Metal(<<Q(7, 10), Q(6, 10), Q(5, 10)>>, Zero)
Mirror == Metal(Ones, Half)
Glass == Dielectric(Q(3, 2))

\* The primitives scenes are made of.  The rays of the model run along the
\* line x = z = 1, which crosses all of them, or across it.
SphereA == SphereNew(Vec(1, 6, 1), Surd(One, 1), Bronze)
SphereT == SphereNew(Vec(1, 0, 1), Surd(R(3), 1), Glass)
CubeC == CubeNew(Zeros, R(6), Grey, One, Zero)
SquareLow == SquareNew(Vec(0, -4, 0), R(8), Mirror, Vec(1, 0, 0), Vec(0, 0, -1), Vec(0, 1, 0))
SquareHigh == SquareNew(Vec(0, 9, 0), R(8), Brown, Vec(1, 0, 0), Vec(0, 0, -1), Vec(0, 1, 0))

Catalogue == {SphereA, SphereT, CubeC, SquareLow, SquareHigh}

\* Every ordered mix of at most MaxForms primitives of the catalogue.
Worlds == UNION {[1..n -> Catalogue] : n \in 0..MaxForms}

\* The rays HittableList::hit is tried with.
HitRays ==
    { RayNew(Vec(1, 4, 1), Vec(0, -1, 0)),
      RayNew(Vec(1, 12, 1), Vec(0, -1, 0)),
      RayNew(Vec(1, 12, 1), Vec(0, -2, 0)),
      RayNew(Vec(1, -6, 1), Vec(0, 1, 0)),
      RayNew(Vec(1, 6, 1), Vec(0, 1, 0)),
      RayNew(Vec(-5, 6, 1), Vec(1, 0, 0)),
      RayNew(Vec(-5, 5, 1), Vec(1, 0, 0)),
      RayNew(Vec(2, 12, 1), Vec(0, -1, 0)) }

\* The ranges (t_min, t_max) it is tried with.
HitRanges ==
    { <<Q(1, 1000), R(F32Max)>>, <<Q(1, 1000), R(8)>>, <<R(5), R(F32Max)>>,
      <<R(1), R(5)>> }

\* A record a caller may hold before the call.
StaleRecord == HitRecord(R(7), Vec(7, 7, 7), Vec(0, 0, 1), Glass, 9)

\* The rays Ray::color is started with.
CameraRays ==
    { RayNew(Vec(1, 12, 1), Vec(0, -1, 0)),
      RayNew(Vec(1, 4, 1), Vec(0, 1, 0)),
      RayNew(Vec(1, 6, 1), Vec(0, -2, 0)),
      RayNew(Vec(1, 12, 1), Vec(3, 4, 0)) }

\* Every root Sphere::hit takes for this scene and ray is rational.
ExactInput(w, r) ==
    \A i \in DOMAIN w :
        IF w[i].kind = "Square" THEN TRUE
        ELSE LET s == IF w[i].kind = "Cube" THEN CubeBoundingSphere(w[i]) ELSE w[i]
                 d == SphereQuadratic(s, r)[4]
             IN  IF RLe(d, Zero) THEN TRUE ELSE HasSqrt(d)

(***************************************************************************)
(* State.                                                                  *)
(***************************************************************************)
VARIABLES
    world,      \* the scene: HittableList.forms
    max_depth,  \* the max_depth of Ray::color
    ray,        \* the ray of the running call (self of color, ray of hit)
    depth,      \* the depth of the running call of Ray::color
    pc,         \* where the program is
    t_min,      \* HittableList::hit: its arguments t_min, t_max
    t_max,
    rec_in,     \* the caller's record when HittableList::hit was entered
    idx,        \* HittableList::hit: the index of the loop
    t_closest,
    temp_rec,
    hit_any,
    rec,        \* the caller's record (rec of hit, rec of color)
    n_pp,       \* Square::hit: its random vector, None outside its loop
    p,          \* random_in_unit_sphere: its point p
    scat,       \* what mat.scatter returned: None, or Some([attenuation, scattered, ok])
    att,        \* attenuation of the call of Ray::color at each depth
    ret,        \* the colour the last finished call of Ray::color returned
    leaf,       \* how the deepest call ended: none, miss, absorbed, exhausted
    leaf_depth, \* the depth of the deepest call
    rejected,   \* whether a rejection loop drew again
    vf_n,       \* view_factors: the number n of samples of each pair
    vf_i,       \* view_factors: the indices i and j of its loops
    vf_j,
    views_i,    \* view_factors: the row being filled
    viewfactors,\* view_factors: the rows filled so far
    sample,     \* view_factor: the samples taken so far
    temp,       \* view_factor: its accumulator
    geom,       \* view_factor: cos_beta1, cos_beta2, l, da1, da2 of the sample
    calls,      \* the calls of view_factor made, in order: << i, j >>
    terms,      \* what each sample of the running call looked like
    shown,      \* the lines Display for Vfs wrote
    camera,     \* the CameraFocus get_ray is called on
    cam_st,     \* get_ray: its arguments << s, t >>
    caller_v,   \* the vector v of the caller of v.make_unit_vector()
    callee_self,\* the self of make_unit_vector, None outside the call
    rw_args,    \* random_world: its arguments
    picks,      \* random_world: choose_mat and choose_form of each pass
    pw_args,    \* print_world: width_px, height_px, dev, n_smooth
    pw_j,       \* print_world: the indices of its three loops
    pw_i,
    pw_s,
    col,        \* print_world: the colour of the pixel being made
    buffer,     \* print_world: what was written to the file
    traces      \* the calls of Ray::color made by print_world

vars == << world, max_depth, ray, depth, pc, t_min, t_max, rec_in, idx, t_closest,
           temp_rec, hit_any, rec, n_pp, p, scat, att, ret, leaf, leaf_depth,
           rejected, vf_n, vf_i, vf_j, views_i, viewfactors, sample, temp, geom,
           calls, terms, shown, camera, cam_st, caller_v, callee_self, rw_args,
           picks, pw_args, pw_j, pw_i, pw_s, col, buffer, traces >>

vfVars == << vf_n, vf_i, vf_j, views_i, viewfactors, sample, temp, geom, calls,
             terms, shown >>
camVars == << camera, cam_st >>
unitVars == << caller_v, callee_self >>
genVars == << rw_args, picks >>
printVars == << pw_args, pw_j, pw_i, pw_s, col, buffer, traces >>
libVars == << unitVars, genVars, printVars >>
hitLocals == << idx, t_closest, temp_rec, hit_any, rec, n_pp >>
hitArgs == << world, ray, t_min, t_max, rec_in >>
colorVars == << max_depth, depth, p, scat, att, ret, leaf, leaf_depth >>

Form(i) == world[i + 1]
NForms == Len(world)

(***************************************************************************)
(* HittableList::hit (src/src/objects/mod.rs), one action per pass of its  *)
(* loop, and Square::hit's loop one action per draw.                       *)
(***************************************************************************)
\* The entry of HittableList::hit and the three locals it declares.
HitEnter(r, tmin, tmax, rc) ==
    /\ ray' = r
    /\ t_min' = tmin
    /\ t_max' = tmax
    /\ rec_in' = rc
    /\ rec' = rc
    /\ temp_rec' = None
    /\ hit_any' = FALSE
    /\ t_closest' = tmax
    /\ idx' = 0
    /\ n_pp' = None
    /\ pc' = "hit"

\* The range the loop hands to form.hit.
ScanRange(tmin, tclosest, tmax) == <<tmin, tclosest>>

\* A variant of the record that keeps the index the primitive wrote.
ListRecordOwn(rr, form, i) ==
    HitRecord(rr.t, rr.p, rr.normal, form.material, rr.hit_elem)

\* The record the loop writes for the hit rr of the primitive at index i.
ListRecord(rr, form, i) == HitRecord(rr.t, rr.p, rr.normal, form.material, i)

\* A variant that hands the primitive's record on even without a hit.
RecAfterLeak(out, form, i, old) ==
    IF out.hit THEN Some(ListRecord(out.rec[1], form, i)) ELSE out.rec

\* The caller's record after a pass whose form.hit returned out.
RecAfter(out, form, i, old) ==
    IF out.hit THEN Some(ListRecord(out.rec[1], form, i)) ELSE old

\* The body of the loop once form.hit has returned out.
ListStep(out) ==
    IF out.panic \/ (out.hit /\ out.rec = None)
    THEN /\ pc' = "panic"
         /\ UNCHANGED << idx, t_closest, temp_rec, hit_any, rec >>
    ELSE /\ temp_rec' = out.rec
         /\ hit_any' = (hit_any \/ out.hit)
         /\ t_closest' = IF out.hit THEN out.rec[1].t ELSE t_closest
         /\ rec' = RecAfter(out, Form(idx), idx, rec)
         /\ idx' = idx + 1
         /\ pc' = pc

\* A pass over a sphere or a cube.
HitSphereOrCube ==
    /\ pc = "hit"
    /\ idx < NForms
    /\ Form(idx).kind \in {"Sphere", "Cube"}
    /\ LET range == ScanRange(t_min, t_closest, t_max)
       IN  ListStep(FormHit(Form(idx), ray, range[1], range[2], temp_rec, None))
    /\ UNCHANGED << vfVars, camVars, libVars, hitArgs, n_pp, colorVars, rejected >>

\* A pass over a square: Square::hit is entered and draws n_pp.
SquareHitDraw ==
    /\ pc = "hit"
    /\ idx < NForms
    /\ Form(idx).kind = "Square"
    /\ n_pp = None
    /\ \E r \in (IF SquareParallel(Form(idx), ray) THEN RandomVecs ELSE NppDraws(ray)) :
          n_pp' = Some(r)
    /\ UNCHANGED << vfVars, camVars, libVars, hitArgs, idx, t_closest, temp_rec, hit_any, rec, pc, colorVars,
                    rejected >>

\* Its while loop finds n_pp too parallel to the ray and draws again.
SquareHitRedraw ==
    /\ pc = "hit"
    /\ idx < NForms
    /\ Form(idx).kind = "Square"
    /\ n_pp # None
    /\ ~SquareParallel(Form(idx), ray)
    /\ NppRejected(n_pp[1], ray)
    /\ \E r \in NppDraws(ray) : n_pp' = Some(r)
    /\ rejected' = TRUE
    /\ UNCHANGED << vfVars, camVars, libVars, hitArgs, idx, t_closest, temp_rec, hit_any, rec, pc, colorVars >>

\* Square::hit returns: at once for a ray in the plane, else with the n_pp
\* the loop ended on.
SquareHitFinish ==
    /\ pc = "hit"
    /\ idx < NForms
    /\ Form(idx).kind = "Square"
    /\ n_pp # None
    /\ ~(~SquareParallel(Form(idx), ray) /\ NppRejected(n_pp[1], ray))
    /\ LET range == ScanRange(t_min, t_closest, t_max)
       IN  ListStep(FormHit(Form(idx), ray, range[1], range[2], temp_rec, n_pp[1]))
    /\ n_pp' = None
    /\ UNCHANGED << vfVars, camVars, libVars, hitArgs, colorVars, rejected >>

\* The loop is over: HittableList::hit returns hit_any.
HittableListHitReturn ==
    /\ pc = "hit"
    /\ idx = NForms
    /\ pc' = "hit_done"
    /\ UNCHANGED << vfVars, camVars, libVars, hitArgs, hitLocals, colorVars, rejected >>

HitNext ==
    \/ HitSphereOrCube
    \/ SquareHitDraw
    \/ SquareHitRedraw
    \/ SquareHitFinish
    \/ HittableListHitReturn

(***************************************************************************)
(* Ray::color (src/src/rays.rs): the calls in flight are the depths        *)
(* 0..depth; att[d] is the attenuation the call at depth d multiplies the  *)
(* colour of its scattered ray with.                                       *)
(***************************************************************************)
\* world.hit returned false: the call returns the background gradient.
ColorMiss ==
    /\ pc = "hit_done"
    /\ ~hit_any
    /\ ret' = Background(ray.b)
    /\ leaf' = "miss"
    /\ leaf_depth' = depth
    /\ pc' = "return"
    /\ UNCHANGED << vfVars, camVars, libVars, hitArgs, hitLocals, max_depth, depth, p, scat, att, rejected >>

\* world.hit returned true on a Lambertian or a Metal: mat.scatter enters
\* random_in_unit_sphere.
ColorHitOpaque ==
    /\ pc = "hit_done"
    /\ hit_any
    /\ rec[1].material.kind \in {"Lambertian", "Metal"}
    /\ p' = UnitSphereStart
    /\ pc' = "scatter"
    /\ UNCHANGED << vfVars, camVars, libVars, hitArgs, hitLocals, max_depth, depth, scat, att, ret, leaf,
                    leaf_depth, rejected >>

\* A pass of the loop of random_in_unit_sphere: p is outside and drawn again.
RandomInUnitSphereDraw ==
    /\ pc = "scatter"
    /\ OutsideUnitSphere(p)
    /\ \E r \in RandomVecs : p' = UnitSphereCandidate(r)
    /\ rejected' = IF p = UnitSphereStart THEN rejected ELSE TRUE
    /\ UNCHANGED << vfVars, camVars, libVars, hitArgs, hitLocals, max_depth, depth, pc, scat, att, ret, leaf,
                    leaf_depth >>

\* The loop ends on a p inside the unit sphere and mat.scatter returns.
ScatterOpaqueReturn ==
    /\ pc = "scatter"
    /\ ~OutsideUnitSphere(p)
    /\ scat' = Some(ScatterOpaque(rec[1].material, ray, rec[1], p))
    /\ pc' = "scattered"
    /\ UNCHANGED << vfVars, camVars, libVars, hitArgs, hitLocals, max_depth, depth, p, att, ret, leaf,
                    leaf_depth, rejected >>

\* world.hit returned true on a Dielectric: mat.scatter draws its number.
ColorHitDielectric ==
    /\ pc = "hit_done"
    /\ hit_any
    /\ rec[1].material.kind = "Dielectric"
    /\ \E draw \in RandomScalars :
           scat' = Some(ScatterDielectric(rec[1].material, ray, rec[1], draw))
    /\ pc' = "scattered"
    /\ UNCHANGED << vfVars, camVars, libVars, hitArgs, hitLocals, max_depth, depth, p, att, ret, leaf,
                    leaf_depth, rejected >>

\* depth < max_depth && do_scatter: scattered.color(world, depth + 1, max_depth).
ColorRecurse ==
    /\ pc = "scattered"
    /\ ColorRecurses(depth, max_depth, scat[1].ok)
    /\ att' = [att EXCEPT ![depth] = scat[1].attenuation]
    /\ depth' = NextDepth(depth)
    /\ HitEnter(scat[1].scattered, Q(1, 1000), R(F32Max), None)
    /\ scat' = None
    /\ UNCHANGED << vfVars, camVars, libVars, world, max_depth, p, ret, leaf, leaf_depth, rejected >>

\* The else branch: the call returns Vec3::zeros().
ColorBlack ==
    /\ pc = "scattered"
    /\ ~ColorRecurses(depth, max_depth, scat[1].ok)
    /\ ret' = Zeros
    /\ leaf' = IF scat[1].ok THEN "exhausted" ELSE "absorbed"
    /\ leaf_depth' = depth
    /\ scat' = None
    /\ pc' = "return"
    /\ UNCHANGED << vfVars, camVars, libVars, hitArgs, hitLocals, max_depth, depth, p, att, rejected >>

\* A call at depth > 0 has returned: its caller multiplies by its attenuation
\* and returns in turn.
ColorReturn ==
    /\ pc = "return"
    /\ depth > 0
    /\ ret' = Accumulate(ret, att[depth - 1])
    /\ depth' = depth - 1
    /\ UNCHANGED << vfVars, camVars, libVars, hitArgs, hitLocals, max_depth, pc, p, scat, att, leaf,
                    leaf_depth, rejected >>

\* The call at depth 0 has returned to the caller of Ray::color.
ColorDone ==
    /\ pc = "return"
    /\ depth = 0
    /\ pc' = "done"
    /\ UNCHANGED << vfVars, camVars, libVars, hitArgs, hitLocals, colorVars, rejected >>

ColorNext ==
    \/ ColorMiss
    \/ ColorHitOpaque
    \/ RandomInUnitSphereDraw
    \/ ScatterOpaqueReturn
    \/ ColorHitDielectric
    \/ ColorRecurse
    \/ ColorBlack
    \/ ColorReturn
    \/ ColorDone

\* The frames of Ray::color before it runs.
ColorIdle ==
    /\ depth = 0
    /\ p = UnitSphereStart
    /\ scat = None
    /\ att = [d \in 0..MaxDepthBound |-> Zeros]
    /\ ret = Zeros
    /\ leaf = "none"
    /\ leaf_depth = 0
    /\ rejected = FALSE

\* view_factors before it runs.
VfIdle ==
    /\ vf_n = 0
    /\ vf_i = 0
    /\ vf_j = 0
    /\ views_i = << >>
    /\ viewfactors = << >>
    /\ sample = 0
    /\ temp = WithPi(Zero, 0)
    /\ geom = None
    /\ calls = << >>
    /\ terms = << >>
    /\ shown = << >>

\* make_unit_vector, random_world and print_world are not running.
LibIdle ==
    /\ caller_v = Zeros
    /\ callee_self = None
    /\ rw_args = None
    /\ picks = << >>
    /\ pw_args = None
    /\ pw_j = 0
    /\ pw_i = 0
    /\ pw_s = 0
    /\ col = Zeros
    /\ buffer = << >>
    /\ traces = << >>

\* No camera is in use.
CamIdle ==
    /\ camera = None
    /\ cam_st = None

\* HittableList::hit called on its own, with any range and any record.
InitHit ==
    /\ world \in Worlds
    /\ ray \in HitRays
    /\ ExactInput(world, ray)
    /\ \E range \in HitRanges : t_min = range[1] /\ t_max = range[2]
    /\ rec_in \in {None, Some(StaleRecord)}
    /\ rec = rec_in
    /\ temp_rec = None
    /\ hit_any = FALSE
    /\ t_closest = t_max
    /\ idx = 0
    /\ n_pp = None
    /\ pc = "hit"
    /\ max_depth = 0
    /\ ColorIdle
    /\ LibIdle
    /\ VfIdle
    /\ CamIdle

SpecHit == InitHit /\ [][HitNext]_vars

\* Ray::color(world, 0, max_depth) called on a camera ray.
Init ==
    /\ world \in Worlds
    /\ ray \in CameraRays
    /\ ExactInput(world, ray)
    /\ max_depth \in 0..MaxDepthBound
    /\ t_min = Q(1, 1000)
    /\ t_max = R(F32Max)
    /\ rec_in = None
    /\ rec = None
    /\ temp_rec = None
    /\ hit_any = FALSE
    /\ t_closest = t_max
    /\ idx = 0
    /\ n_pp = None
    /\ pc = "hit"
    /\ ColorIdle
    /\ LibIdle
    /\ VfIdle
    /\ CamIdle

Next == HitNext \/ ColorNext

Spec == Init /\ [][Next]_vars

\* Ray::color has not returned to its caller (nor panicked): exactly then the
\* thread has a next step, that is, Next is enabled.
Running == pc \notin {"done", "panic"}

\* The thread does not stop while it has a next step.  Under [][Next]_vars
\* every step that changes vars is a step of Next, so this is WF_vars(Next).
Progress == []<><<TRUE>>_vars \/ <>[]~Running

\* The calls run to completion: a step is taken whenever one can be.
FairSpec ==
    /\ Spec
    /\ WF_vars(HittableListHitReturn)
    /\ WF_vars(ColorHitOpaque)
    /\ WF_vars(ColorDone)
    /\ Progress

(***************************************************************************)
(* Material::scatter on its own: Ray::color at the point where world.hit   *)
(* has returned a record, for rays that meet the surface at an angle.      *)
(***************************************************************************)
Water == Dielectric(Q(4, 3))

\* The materials of the record.
ScatterMaterials == {Grey, Bronze, Mirror, Glass, Water}

\* The directions of the incoming ray: onto the surface y = 0 from above
\* and from below, head-on and at the angles of the 3-4-5 triangle.
ScatterDirections ==
    { Vec(0, -1, 0), Vec(0, -2, 0), Vec(3, -4, 0), Vec(4, -3, 0),
      <<Q(3, 5), Q(-4, 5), Zero>>, Vec(0, 1, 0), Vec(3, 4, 0), Vec(4, 3, 0) }

\* The record of the hit: at (1, 0, 1), with normal (0, 1, 0).
ScatterRecord(material) == HitRecord(R(5), Vec(1, 0, 1), Vec(0, 1, 0), material, 0)

\* The cosine the Dielectric rule computes for the direction b and normal n.
DielectricCosine(b, n) == RAbs(Dot(UnitVector(b), n))

\* ni_over_nt of the Dielectric rule.
DielectricRatio(dielectric, b, n) ==
    IF RGt(Dot(b, n), Zero) THEN dielectric.n ELSE RDiv(One, dielectric.n)

\* The square of ni_over_nt * sine.
SineOutSquare(dielectric, b, n) ==
    RMul(Powi(DielectricRatio(dielectric, b, n), 2),
         RSub(One, Powi(DielectricCosine(b, n), 2)))

\* The roots the Dielectric rule takes are rational.
ScatterExact(material, b, n) ==
    IF material.kind # "Dielectric" THEN TRUE
    ELSE IF ~HasSqrt(RSub(One, Powi(DielectricCosine(b, n), 2))) THEN FALSE
    ELSE IF RGt(SineOutSquare(material, b, n), One) THEN TRUE
    ELSE HasSqrt(RSub(One, SineOutSquare(material, b, n)))

\* Ray::color just after world.hit returned true with a record.
InitScatter ==
    /\ world = << >>
    /\ \E b \in ScatterDirections, material \in ScatterMaterials :
          /\ ScatterExact(material, b, Vec(0, 1, 0))
          /\ ray = RayNew(VSub(Vec(1, 0, 1), b), b)
          /\ rec = Some(ScatterRecord(material))
    /\ max_depth \in 0..1
    /\ t_min = Q(1, 1000)
    /\ t_max = R(F32Max)
    /\ rec_in = None
    /\ temp_rec = None
    /\ hit_any = TRUE
    /\ t_closest = t_max
    /\ idx = 0
    /\ n_pp = None
    /\ pc = "hit_done"
    /\ ColorIdle
    /\ LibIdle
    /\ VfIdle
    /\ CamIdle

\* mat.scatter and the else branch of Ray::color.
ScatterSteps ==
    \/ ColorHitOpaque
    \/ RandomInUnitSphereDraw
    \/ ScatterOpaqueReturn
    \/ ColorHitDielectric
    \/ ColorBlack

SpecScatter == InitScatter /\ [][ScatterSteps]_vars

(***************************************************************************)
(* ViewFactors for HittableList and Display for Vfs (src/src/radiation.rs).*)
(***************************************************************************)
\* Scenes of at most MaxVfForms primitives, and at most MaxSamples samples
\* for each pair.
MaxVfForms == 3
MaxSamples == 2

\* The primitives of these scenes: two facing squares, a sphere between
\* them and a cube off to the side.
Floor == SquareNew(<<Q(3, 2), Zero, Zero>>, R(6), Grey, Vec(1, 0, 0), Vec(0, 0, -1), Vec(0, 1, 0))
Ceiling == SquareNew(<<Q(3, 2), R(4), Zero>>, R(6), Grey, Vec(1, 0, 0), Vec(0, 0, 1), Vec(0, -1, 0))
Ball == SphereNew(<<Q(3, 2), Q(39, 16), Zero>>, Surd(Q(7, 16), 1), Grey)
Box == CubeNew(Vec(0, 0, 10), R(2), Grey, One, Zero)

VfCatalogue == {Floor, Ceiling, Ball, Box}

\* Every ordered choice of at most MaxVfForms different primitives.
VfWorlds ==
    UNION {{w \in [1..k -> VfCatalogue] : \A a, b \in 1..k : w[a] = w[b] => a = b} :
           k \in 0..MaxVfForms}

\* The values random() takes for s1, t1, s2, t2 in the model: the sphere
\* then takes sines and cosines of multiples of PI/2 only.
SampleDraws ==
    {<< s1, Half, s2, Half >> : s1 \in {Q(1, 4), Q(3, 4)}, s2 \in {Q(1, 4), Q(3, 4)}}

\* The 1e-8 that view_factor gives to hit as t_min.
VfTMin == Q(1, 100000000)

\* r12 of a sample.
SampleR12(form_1, form_2, d) ==
    VSub(FormPoint(form_2, d[3], d[4]), FormPoint(form_1, d[1], d[2]))

\* The visibility ray of a sample.
SampleRay(form_1, form_2, d) ==
    RayNew(FormPoint(form_1, d[1], d[2]), UnitVector(SampleR12(form_1, form_2, d)))

\* The model follows a sample when the two points differ, their distance is
\* rational, and so is every root the visibility ray needs.
SampleExact(w, form_1, form_2, d) ==
    IF SquareLength(SampleR12(form_1, form_2, d)) = Zero THEN FALSE
    ELSE IF ~HasSqrt(SquareLength(SampleR12(form_1, form_2, d))) THEN FALSE
    ELSE IF ~ExactInput(w, SampleRay(form_1, form_2, d)) THEN FALSE
    ELSE \E n \in NppDraws(SampleRay(form_1, form_2, d)) :
            ~NppRejected(n, SampleRay(form_1, form_2, d))

\* cos_beta1, cos_beta2, l, da1 and da2 of a sample, before the hit test.
SampleGeometry(form_1, form_2, d, r12, l) ==
    [ cos_beta1 |-> RDiv(Dot(r12, FormNormal(form_1, d[1], d[2])), l),
      cos_beta2 |-> RDiv(Dot(VNeg(r12), FormNormal(form_2, d[3], d[4])), l),
      l |-> l,
      da1 |-> FormDiffA(form_1, d[1], d[2]),
      da2 |-> FormDiffA(form_2, d[3], d[4]) ]

\* A variant of the inner loop that starts at i.
FirstJSelf(i) == i

\* Where the inner loop of view_factors starts: for j in (i+1)..n_objs.
FirstJ(i) == i + 1

\* A variant that divides by the area of the receiver.
NormalisingAreaReceiver(form_1, form_2) == FormArea(form_2)

\* The area view_factor divides by: form_1.area().
NormalisingArea(form_1, form_2) == FormArea(form_1)

\* view_factors: the inner loop calls view_factor(n, i, j).
ViewFactorCall ==
    /\ pc = "view_factors"
    /\ vf_i < NForms
    /\ vf_j < NForms
    /\ calls' = Append(calls, << vf_i, vf_j >>)
    /\ temp' = WithPi(Zero, 0)
    /\ rec' = None
    /\ sample' = 0
    /\ terms' = << >>
    /\ pc' = "view_factor"
    /\ UNCHANGED << vf_n, vf_i, vf_j, views_i, viewfactors, geom, shown, camVars, libVars,
                    hitArgs, idx, t_closest, temp_rec, hit_any, n_pp, colorVars,
                    rejected >>

\* view_factor: one pass of its loop, up to the call of self.hit.
ViewFactorSample ==
    /\ pc = "view_factor"
    /\ sample < vf_n
    /\ \E d \in SampleDraws :
          /\ SampleExact(world, Form(vf_i), Form(vf_j), d)
          /\ geom' = Some(SampleGeometry(Form(vf_i), Form(vf_j), d,
                                         SampleR12(Form(vf_i), Form(vf_j), d),
                                         Length(SampleR12(Form(vf_i), Form(vf_j), d))))
          /\ HitEnter(SampleRay(Form(vf_i), Form(vf_j), d), VfTMin,
                      Length(SampleR12(Form(vf_i), Form(vf_j), d)), rec)
    /\ UNCHANGED << vf_n, vf_i, vf_j, views_i, viewfactors, sample, temp, calls,
                    terms, shown, camVars, libVars, world, colorVars, rejected >>

\* What view_factor adds to temp for the sample g once self.hit has
\* returned hit with hit_rec.
TermOf(g, hit, hit_rec, form_2_idx) ==
    SampleTerm(FacingCos(g.cos_beta1, VisibleCos(hit, hit_rec, form_2_idx, g.cos_beta2)),
               VisibleCos(hit, hit_rec, form_2_idx, g.cos_beta2),
               g.l, g.da1, g.da2)

\* view_factor: the rest of the pass, after self.hit has returned.
ViewFactorAccumulate ==
    /\ pc = "hit_done"
    /\ geom # None
    /\ temp' = AddTerm(temp, TermOf(geom[1], hit_any, rec, vf_j))
    /\ terms' = Append(terms, [ form_1_idx |-> vf_i, form_2_idx |-> vf_j,
                                geom |-> geom[1], hit |-> hit_any, hit_rec |-> rec,
                                term |-> TermOf(geom[1], hit_any, rec, vf_j) ])
    /\ sample' = sample + 1
    /\ geom' = None
    /\ pc' = "view_factor"
    /\ UNCHANGED << vf_n, vf_i, vf_j, views_i, viewfactors, calls, shown, camVars, libVars,
                    hitArgs, hitLocals, colorVars, rejected >>

\* view_factor returns and view_factors pushes the value on the row.
ViewFactorReturn ==
    /\ pc = "view_factor"
    /\ sample = vf_n
    /\ views_i' = Append(views_i, Normalise(temp, NormalisingArea(Form(vf_i), Form(vf_j)),
                                            vf_n))
    /\ vf_j' = vf_j + 1
    /\ pc' = "view_factors"
    /\ UNCHANGED << vf_n, vf_i, viewfactors, sample, temp, geom, calls, terms, shown,
                    camVars, libVars, hitArgs, hitLocals, colorVars, rejected >>

\* view_factors: the inner loop is over, the row is pushed.
ViewFactorsPush ==
    /\ pc = "view_factors"
    /\ vf_i < NForms
    /\ vf_j >= NForms
    /\ viewfactors' = Append(viewfactors, views_i)
    /\ views_i' = << >>
    /\ vf_i' = vf_i + 1
    /\ vf_j' = FirstJ(vf_i + 1)
    /\ UNCHANGED << vf_n, sample, temp, geom, calls, terms, shown, pc, camVars, libVars,
                    hitArgs, hitLocals, colorVars, rejected >>

\* view_factors returns Vfs::from(viewfactors).
ViewFactorsReturn ==
    /\ pc = "view_factors"
    /\ vf_i >= NForms
    /\ pc' = "vfs"
    /\ UNCHANGED << vfVars, camVars, libVars, hitArgs, hitLocals, colorVars, rejected >>

\* f32::consts::PI as a ratio.
PiRatio == Q(355, 113)

\* The number v stands for.
Numeric(v) ==
    CASE v.pi = 0 -> v.q
      [] v.pi = 1 -> RMul(v.q, PiRatio)
      [] v.pi = -1 -> RDiv(v.q, PiRatio)

\* The digit of x at decimal place k >= 1, x not negative.
RECURSIVE Remainder(_, _)
Remainder(x, k) == IF k = 0 THEN x[1] % x[2] ELSE (Remainder(x, k - 1) * 10) % x[2]

Digit(x, k) == (Remainder(x, k - 1) * 10) \div x[2]

\* {:.4} of a number that is not negative: its value in ten-thousandths,
\* rounded on the fifth decimal.
Fixed4(x) ==
    (x[1] \div x[2]) * 10000 + Digit(x, 1) * 1000 + Digit(x, 2) * 100
        + Digit(x, 3) * 10 + Digit(x, 4) + (IF Digit(x, 5) >= 5 THEN 1 ELSE 0)

\* {:.4} of an f32: "NaN", "inf", or the digits of the number.
Format4(v) ==
    IF v = NaN THEN [text |-> "NaN", digits |-> 0]
    ELSE IF v = Inf THEN [text |-> "inf", digits |-> 0]
    ELSE [text |-> "number", digits |-> Fixed4(Numeric(v))]

\* A variant of the second index that forgets the offset of the row.
DisplayIndexRow(i, j) == j + i

\* The second index Display writes for entry j of row i.
DisplayIndex(i, j) == j + i + 1

\* The line writeln! writes for entry j of row i: "F({},{}) = {:.4}".
DisplayLine(i, j, v) == [ i |-> i, j |-> DisplayIndex(i, j), value |-> Format4(v) ]

\* fmt from row i on; get(..).unwrap() panics on a row that is too short.
RECURSIVE DisplayFrom(_, _)
DisplayFrom(vfs, i) ==
    IF i >= Len(vfs) THEN << >>
    ELSE IF Len(vfs[i + 1]) < Len(vfs) - i - 1
         THEN << [ i |-> i, j |-> i, value |-> [text |-> "panic", digits |-> 0] ] >>
    ELSE [ j \in 1..(Len(vfs) - i - 1) |-> DisplayLine(i, j - 1, vfs[i + 1][j]) ]
            \o DisplayFrom(vfs, i + 1)

\* Display for Vfs, on the result of view_factors.
VfsDisplay ==
    /\ pc = "vfs"
    /\ shown' = DisplayFrom(viewfactors, 0)
    /\ pc' = "shown"
    /\ UNCHANGED << vf_n, vf_i, vf_j, views_i, viewfactors, sample, temp, geom,
                    calls, terms, camVars, libVars, hitArgs, hitLocals, colorVars, rejected >>

VfNext ==
    \/ ViewFactorCall
    \/ ViewFactorSample
    \/ ViewFactorAccumulate
    \/ ViewFactorReturn
    \/ ViewFactorsPush
    \/ ViewFactorsReturn
    \/ VfsDisplay

\* view_factors(n) called on a scene, its result then displayed.
InitVF ==
    /\ world \in VfWorlds
    /\ vf_n \in 1..MaxSamples
    /\ vf_i = 0
    /\ vf_j = FirstJ(0)
    /\ views_i = << >>
    /\ viewfactors = << >>
    /\ sample = 0
    /\ temp = WithPi(Zero, 0)
    /\ geom = None
    /\ calls = << >>
    /\ terms = << >>
    /\ shown = << >>
    /\ pc = "view_factors"
    /\ ray = RayNew(Zeros, Vec(0, 1, 0))
    /\ t_min = VfTMin
    /\ t_max = R(F32Max)
    /\ rec_in = None
    /\ rec = None
    /\ temp_rec = None
    /\ hit_any = FALSE
    /\ t_closest = t_max
    /\ idx = 0
    /\ n_pp = None
    /\ max_depth = 0
    /\ ColorIdle
    /\ LibIdle
    /\ CamIdle

VfSteps == HitNext \/ VfNext

SpecVF == InitVF /\ [][VfSteps]_vars

(***************************************************************************)
(* CameraFocus (src/src/cameras.rs): its constructor and get_ray.          *)
(***************************************************************************)
\* (theta / 2).tan() for theta = vfov * PI / 180, for the angle of view the
\* model uses.
TanHalf(vfov) == CASE vfov = 90 -> One

\* CameraFocus::new.
CameraFocusBasis(look_from, w, u, v, half_width, half_height, aperture, focus_dist) ==
    [ origin |-> look_from,
      lower_left_corner |->
          VSub(look_from,
               VScale(VAdd(VAdd(VScale(u, half_width), VScale(v, half_height)), w),
                      focus_dist)),
      horizontal |-> VScale(VScale(VScale(u, half_width), focus_dist), Two),
      vertical |-> VScale(VScale(VScale(v, half_height), focus_dist), Two),
      u |-> u, v |-> v, w |-> w,
      lens_radius |-> RDiv(aperture, Two) ]

CameraFocusAxes(look_from, w, u, vfov, aspect, aperture, focus_dist) ==
    CameraFocusBasis(look_from, w, u, UnitVector(Cross(w, u)),
                     RMul(aspect, TanHalf(vfov)), TanHalf(vfov), aperture, focus_dist)

CameraFocusNew(look_from, look_at, vup, vfov, aspect, aperture, focus_dist) ==
    CameraFocusAxes(look_from, UnitVector(VSub(look_from, look_at)),
                    UnitVector(Cross(vup, UnitVector(VSub(look_from, look_at)))),
                    vfov, aspect, aperture, focus_dist)

\* The cameras of the model: two eye points, two apertures, two focus
\* distances, looking at the origin with 90 degrees of view.
Cameras ==
    { CameraFocusNew(look_from, Zeros, Vec(0, 1, 0), 90, Two, aperture, focus_dist) :
          look_from \in {Vec(0, 0, 1), Vec(3, 0, 4)},
          aperture \in {Q(1, 10), Two},
          focus_dist \in {One, R(10)} }

\* The values rng.gen::<f32>() takes in random_in_unit_disk.
DiskDraws == {Zero, Q(1, 4), Half, Q(3, 4)}

\* The image-plane coordinates get_ray is called with.
ImageCoordinates == {Zero, Half, One}

\* The candidate random_in_unit_disk makes of two draws.
UnitDiskCandidate(x, y) == VSub(VScale(<< x, y, Zero >>, Two), Vec(1, 1, 0))

\* A variant of the direction that aims from the eye point.
FocusDirectionFromEye(cam, st, offset) ==
    VSub(VAdd(VAdd(cam.lower_left_corner, VScale(cam.horizontal, st[1])),
              VScale(cam.vertical, st[2])),
         cam.origin)

\* The direction of the ray of get_ray.
FocusDirection(cam, st, offset) ==
    VSub(VSub(VAdd(VAdd(cam.lower_left_corner, VScale(cam.horizontal, st[1])),
                   VScale(cam.vertical, st[2])),
              cam.origin),
         offset)

\* offset of get_ray, for the point of the disk random_in_unit_disk returned.
LensOffset(cam, disk) ==
    VAdd(VScale(cam.u, VScale(disk, cam.lens_radius)[1]),
         VScale(cam.v, VScale(disk, cam.lens_radius)[2]))

\* A pass of the loop of random_in_unit_disk: p is outside and drawn again.
RandomInUnitDiskDraw ==
    /\ pc = "get_ray"
    /\ RLe(One, SquareLength(p))
    /\ \E x, y \in DiskDraws : p' = UnitDiskCandidate(x, y)
    /\ rejected' = IF p = UnitSphereStart THEN rejected ELSE TRUE
    /\ UNCHANGED << vfVars, camVars, libVars, hitArgs, hitLocals, max_depth, depth, pc, scat, att,
                    ret, leaf, leaf_depth >>

\* The loop ends on a p inside the disk and get_ray returns its ray.
GetRayReturn ==
    /\ pc = "get_ray"
    /\ ~RLe(One, SquareLength(p))
    /\ ray' = RayNew(VAdd(camera[1].origin, LensOffset(camera[1], p)),
                     FocusDirection(camera[1], cam_st[1], LensOffset(camera[1], p)))
    /\ pc' = "ray"
    /\ UNCHANGED << vfVars, camVars, libVars, world, t_min, t_max, rec_in, hitLocals, colorVars,
                    rejected >>

GetRaySteps == RandomInUnitDiskDraw \/ GetRayReturn

\* get_ray(s, t) called on a focus camera.
InitCamera ==
    /\ camera \in {Some(c) : c \in Cameras}
    /\ cam_st \in {Some(<< cs, ct >>) : cs \in ImageCoordinates, ct \in ImageCoordinates}
    /\ world = << >>
    /\ ray = RayNew(Zeros, Vec(0, 1, 0))
    /\ t_min = Q(1, 1000)
    /\ t_max = R(F32Max)
    /\ rec_in = None
    /\ rec = None
    /\ temp_rec = None
    /\ hit_any = FALSE
    /\ t_closest = t_max
    /\ idx = 0
    /\ n_pp = None
    /\ max_depth = 0
    /\ pc = "get_ray"
    /\ ColorIdle
    /\ LibIdle
    /\ VfIdle

SpecCamera == InitCamera /\ [][GetRaySteps]_vars

(***************************************************************************)
(* Properties of HittableList::hit and of the primitives, under SpecHit.   *)
(***************************************************************************)
\* A vector n_pp on which the loop of Square::hit ends.
AcceptedNpp == CHOOSE n \in NppDraws(ray) : ~NppRejected(n, ray)

\* The primitive at index i tested on its own with the range of the call.
Alone(i) == FormHit(Form(i), ray, t_min, t_max, None, AcceptedNpp)

\* The primitives that report a hit on their own.
AloneHits == {i \in 0..(NForms - 1) : Alone(i).hit}

InRange(t) == RLt(t_min, t) /\ RLt(t, t_max)

\* C1: HittableList::hit returns true exactly when some primitive, tested on
\* its own with the same range, reports a hit, and the t it reports is the
\* minimum of the distances those primitives report on their own.
C1_NearestOfAll ==
    pc = "hit_done" =>
        /\ hit_any <=> (AloneHits # {})
        /\ hit_any => /\ \E i \in AloneHits : Alone(i).rec[1].t = rec[1].t
                      /\ \A i \in AloneHits : RLe(rec[1].t, Alone(i).rec[1].t)

\* C2: if no primitive of the scene is hit within the range (the empty scene
\* included), HittableList::hit returns false and the caller's record holds
\* the value it had before the call.
C2_MissKeepsRecord ==
    (pc = "hit_done" /\ AloneHits = {}) => (~hit_any /\ rec = rec_in)

\* A miss over a cube whose bounding sphere was hit, the caller holding a record.
C2_Witness ==
    /\ pc = "hit_done"
    /\ AloneHits = {}
    /\ NForms > 0
    /\ temp_rec # None
    /\ rec_in = Some(StaleRecord)

\* C3: when HittableList::hit returns true, hit_elem is smaller than the
\* number of primitives, the primitive at hit_elem reports on its own the t,
\* point and normal of the record, and the material is that primitive's.
C3_OwnerOfHit ==
    (pc = "hit_done" /\ hit_any) =>
        /\ rec[1].hit_elem \in 0..(NForms - 1)
        /\ Alone(rec[1].hit_elem).hit
        /\ Alone(rec[1].hit_elem).rec[1].t = rec[1].t
        /\ Alone(rec[1].hit_elem).rec[1].p = rec[1].p
        /\ Alone(rec[1].hit_elem).rec[1].normal = rec[1].normal
        /\ rec[1].material = Form(rec[1].hit_elem).material

\* The second primitive of a scene is the one hit, the first having another
\* material.
C3_Witness ==
    /\ pc = "hit_done"
    /\ hit_any
    /\ rec[1].hit_elem = 1
    /\ Form(0).material # Form(1).material

\* What C8 says of the roots t1 < t2 of a positive discriminant.
NearestAdmissible(t1, t2) ==
    /\ RLt(t1, t2)
    /\ IF InRange(t1) THEN hit_any /\ rec[1].t = t1
       ELSE IF InRange(t2) THEN hit_any /\ rec[1].t = t2
       ELSE ~hit_any

\* C8: Sphere::hit reports no hit when the discriminant is not positive;
\* otherwise it reports t1 when t1 lies in (t_min, t_max), t2 when only t2
\* does, and no hit when neither does.
C8_NearestRoot ==
    (pc = "hit_done" /\ NForms = 1 /\ Form(0).kind = "Sphere") =>
        IF RLe(SphereQuadratic(Form(0), ray)[4], Zero) THEN ~hit_any
        ELSE NearestAdmissible(SphereTs(SphereQuadratic(Form(0), ray))[1],
                               SphereTs(SphereQuadratic(Form(0), ray))[2])

\* Both roots lie in the range and the near one is reported.
C8_Witness ==
    /\ pc = "hit_done"
    /\ NForms = 1
    /\ Form(0).kind = "Sphere"
    /\ hit_any
    /\ InRange(SphereTs(SphereQuadratic(Form(0), ray))[2])
    /\ rec[1].t = SphereTs(SphereQuadratic(Form(0), ray))[1]

\* The ray starts outside the sphere and its line crosses it.
CrossesFromOutside(sphere) ==
    /\ RGt(SquareLength(VSub(ray.a, sphere.center)), SurdSquare(sphere.radius))
    /\ RGt(SphereQuadratic(sphere, ray)[4], Zero)

\* What C9 says of the record r written for the sphere.
OnSphere(r, sphere) ==
    /\ r.p = VAdd(ray.a, VScale(ray.b, r.t))
    /\ SquareLength(VSub(r.p, sphere.center)) = SurdSquare(sphere.radius)
    /\ VScale(r.normal, sphere.radius.q) = VSub(r.p, sphere.center)
    /\ SquareLength(r.normal) = One

\* C9: for a ray that starts outside a sphere and passes through it, the
\* point of the record is origin + direction * t at distance exactly radius
\* from the centre, and the normal is the unit vector (point - center)/radius.
C9_PointAndNormal ==
    (/\ pc = "hit_done"
     /\ hit_any
     /\ Form(rec[1].hit_elem).kind = "Sphere"
     /\ CrossesFromOutside(Form(rec[1].hit_elem)))
        => OnSphere(rec[1], Form(rec[1].hit_elem))

\* A sphere of radius 3 is hit from outside.
C9_Witness ==
    /\ pc = "hit_done"
    /\ hit_any
    /\ Form(rec[1].hit_elem) = SphereT
    /\ CrossesFromOutside(SphereT)

\* C10: for every hit Square::hit reports, the normal is +w or -w of the
\* square and its dot product with the direction of the ray is negative.
C10_NormalFacesRay ==
    (pc = "hit_done" /\ hit_any /\ Form(rec[1].hit_elem).kind = "Square") =>
        /\ rec[1].normal \in {Form(rec[1].hit_elem).w, VNeg(Form(rec[1].hit_elem).w)}
        /\ RLt(Dot(rec[1].normal, ray.b), Zero)

\* A square is hit from the side its w points away from.
C10_Witness ==
    /\ pc = "hit_done"
    /\ hit_any
    /\ Form(rec[1].hit_elem).kind = "Square"
    /\ rec[1].normal = VNeg(Form(rec[1].hit_elem).w)
    /\ rec[1].normal # Form(rec[1].hit_elem).w

(***************************************************************************)
(* Properties of Ray::color, under Spec and FairSpec.                      *)
(***************************************************************************)
\* The colour the caller of Ray::color(world, 0, max_depth) has received.
Returned == pc = "done"

\* C4: Ray::color returns exactly (0,0,0) whenever a hit along the path is
\* absorbed (scatter returns false) or occurs with the bounce count equal to
\* max_depth: the call with that hit returns black without recursing, and
\* black is what the caller of Ray::color receives, whatever the attenuations.
C4_BlackPath ==
    /\ [][(pc = "scattered" /\ (~scat[1].ok \/ depth = max_depth))
            => /\ pc' = "return"
               /\ depth' = depth
               /\ ret' = Zeros
               /\ leaf' \in {"absorbed", "exhausted"}
               /\ leaf_depth' = depth]_vars
    /\ []((Returned /\ leaf \in {"absorbed", "exhausted"}) => ret = Zeros)

\* A path that hit a surface at every bounce down to the depth bound, with
\* attenuations that are not black, has returned.
C4_Witness ==
    /\ Returned
    /\ leaf = "exhausted"
    /\ max_depth > 0
    /\ leaf_depth = max_depth
    /\ \A d \in 0..(max_depth - 1) : att[d] # Zeros
    /\ ret = Zeros

\* The program is in one of its rejection loops: random_in_unit_sphere, or
\* the search of Square::hit for a vector not parallel to the ray.
InRejectionLoop == pc = "scatter" \/ (pc = "hit" /\ n_pp # None)

C6_Gradient(t) ==
    ret = << RAdd(RSub(One, t), RMul(Q(5, 10), t)),
             RAdd(RSub(One, t), RMul(Q(7, 10), t)),
             RAdd(RSub(One, t), t) >>

C6_BackgroundBlend ==
    (pc = "return" /\ leaf = "miss" /\ depth = leaf_depth) =>
        /\ C6_Gradient(RMul(Half, RAdd(RDiv(ray.b[2], Length(ray.b)), One)))
        /\ ray.b = Vec(0, 1, 0) => ret = <<Q(5, 10), Q(7, 10), One>>
        /\ ray.b = Vec(0, -1, 0) => ret = Ones

\* A ray scattered at the depth bound leaves straight up and misses.
C6_Witness ==
    /\ pc = "return"
    /\ leaf = "miss"
    /\ depth = leaf_depth
    /\ depth = max_depth
    /\ depth > 0
    /\ ray.b = Vec(0, 1, 0)

\* The component-wise product of the attenuations of the calls 0..k-1.
RECURSIVE AttProduct(_)
AttProduct(k) == IF k = 0 THEN Ones ELSE VMul(AttProduct(k - 1), att[k - 1])

UnitInterval(x) == RLe(Zero, x) /\ RLe(x, One)

AlbedosInUnitInterval ==
    \A i \in DOMAIN world :
        world[i].material.kind \in {"Lambertian", "Metal"} =>
            \A c \in 1..3 : UnitInterval(world[i].material.albedo[c])

\* C7: with all albedos in [0,1], every component of the colour Ray::color
\* returns lies in [0,1] and does not exceed the product of the attenuations
\* of the scatter events of the path.
C7_BoundedColour ==
    (Returned /\ AlbedosInUnitInterval) =>
        \A c \in 1..3 :
            /\ UnitInterval(ret[c])
            /\ RLe(ret[c], AttProduct(leaf_depth)[c])

\* A path that was scattered by a tinted surface and escaped to the background.
C7_Witness ==
    /\ Returned
    /\ AlbedosInUnitInterval
    /\ leaf = "miss"
    /\ leaf_depth > 0
    /\ AttProduct(leaf_depth) # Ones
    /\ ret # Zeros
    /\ RLt(ret[1], AttProduct(leaf_depth)[1])

(***************************************************************************)
(* Properties of Cube::hit, under SpecHit.                                 *)
(***************************************************************************)
\* The outward axes of the six faces of the cube.
SignedAxes(cube) ==
    {cube.u, VNeg(cube.u), cube.v, VNeg(cube.v), cube.w, VNeg(cube.w)}

\* The distance at which the ray crosses the plane of the face with axis e.
FacePlaneT(cube, e) ==
    RDiv(Dot(VSub(VAdd(cube.center, VScale(e, RDiv(cube.length, Two))), ray.a), e),
         Dot(ray.b, e))

\* The point at distance t lies strictly within length/2 of the face centre
\* along the two in-plane axes of the face with axis e.
WithinFace(cube, e, t) ==
    \A a \in {cube.u, cube.v, cube.w} \ {e, VNeg(e)} :
        RLt(RAbs(Dot(VSub(PointAtParameter(ray, t), cube.center), a)),
            RDiv(cube.length, Two))

\* The faces the ray crosses at an admissible distance.
FacesCrossed(cube) ==
    {e \in SignedAxes(cube) :
        IF Dot(ray.b, e) = Zero THEN FALSE
        ELSE InRange(FacePlaneT(cube, e)) /\ WithinFace(cube, e, FacePlaneT(cube, e))}

\* C11: Cube::hit returns true exactly when one of the six face planes is
\* crossed at a t in (t_min, t_max) with both in-plane coordinates strictly
\* within length/2, and then the record holds the smallest such t with the
\* signed axis of that face as normal, whatever the range is.
C11_SixFaces ==
    (pc = "hit_done" /\ NForms = 1 /\ Form(0).kind = "Cube") =>
        /\ hit_any <=> (FacesCrossed(Form(0)) # {})
        /\ hit_any =>
              /\ \E e \in FacesCrossed(Form(0)) :
                     rec[1].t = FacePlaneT(Form(0), e) /\ rec[1].normal = e
              /\ \A e \in FacesCrossed(Form(0)) :
                     RLe(rec[1].t, FacePlaneT(Form(0), e))

(***************************************************************************)
(* Properties of view_factor, view_factors and Display, under SpecVF.      *)
(***************************************************************************)
\* The sample e of the log was found occluded: self.hit returned true with
\* a record of another primitive, or with none.
Occluded(e) ==
    IF e.hit THEN (IF e.hit_rec = None THEN TRUE ELSE e.hit_rec[1].hit_elem # e.form_2_idx)
    ELSE FALSE

\* The visibility ray of e had its hit on form_2, nearer than the sampled
\* point of form_2.
ConfirmedNearer(e) ==
    IF e.hit /\ e.hit_rec # None
    THEN e.hit_rec[1].hit_elem = e.form_2_idx /\ RLt(e.hit_rec[1].t, e.geom.l)
    ELSE FALSE

\* The two surface elements of e face each other and are not degenerate.
Facing(e) ==
    /\ RGt(e.geom.cos_beta1, Zero)
    /\ RGt(e.geom.cos_beta2, Zero)
    /\ e.geom.da1.q # Zero
    /\ e.geom.da2.q # Zero

\* C12 as stated: a sample adds to the accumulator only when its visibility
\* ray has its nearest hit on primitive j, nearer than the direct distance.
C12_OnlyConfirmedHits ==
    \A k \in DOMAIN terms : terms[k].term.q # Zero => ConfirmedNearer(terms[k])

\* C12, amended: a sample adds to the accumulator exactly when its two
\* surface elements face each other and self.hit over (1e-8, l) either
\* reports no hit or reports its hit on primitive j; a sample whose ray is
\* reported to hit another primitive, i included, adds zero.
C12_UnlessOccluded ==
    \A k \in DOMAIN terms :
        (terms[k].term.q # Zero) <=> (Facing(terms[k]) /\ ~Occluded(terms[k]))

\* Two samples of one call that face each other: one that added to the
\* accumulator with no hit nearer than the sampled point, one stopped by
\* another primitive.
C12_Witness ==
    \E a, b \in DOMAIN terms :
        /\ ~ConfirmedNearer(terms[a]) /\ terms[a].term.q # Zero
        /\ Facing(terms[b]) /\ Occluded(terms[b]) /\ terms[b].term.q = Zero

\* C13: in a scene with a Cube no view factor is computed for a pair that
\* has the Cube as emitter or receiver.
C13_CubesSkipped ==
    \A k \in DOMAIN calls :
        Form(calls[k][1]).kind # "Cube" /\ Form(calls[k][2]).kind # "Cube"

\* The pairs of calls are in increasing order: by i, then by j.
PairBefore(a, b) == a[1] < b[1] \/ (a[1] = b[1] /\ a[2] < b[2])

\* C14: view_factor is called once for each pair i < j, in increasing i then
\* j, never for i >= j; the call for (i, j) fills entry j-i-1 of row i; the
\* result has N rows, row i of N-1-i entries, N*(N-1)/2 entries in all.
C14_UpperTriangle ==
    /\ \A k \in DOMAIN calls : calls[k][1] < calls[k][2] /\ calls[k][2] < NForms
    /\ \A k, m \in DOMAIN calls : k < m => PairBefore(calls[k], calls[m])
    /\ pc \in {"view_factor", "hit", "hit_done"} =>
          /\ calls[Len(calls)] = << vf_i, vf_j >>
          /\ Len(viewfactors) = vf_i
          /\ Len(views_i) = vf_j - vf_i - 1
    /\ pc \in {"vfs", "shown"} =>
          /\ Len(viewfactors) = NForms
          /\ \A r \in 0..(NForms - 1) : Len(viewfactors[r + 1]) = NForms - 1 - r
          /\ 2 * Len(calls) = NForms * (NForms - 1)

\* view_factors has returned the three factors of a scene of three.
C14_Witness == pc = "vfs" /\ NForms = 3 /\ Len(calls) = 3 /\ Len(viewfactors[1]) = 2

\* The sum of the coefficients of the terms of the log from k on.
RECURSIVE SumFrom(_)
SumFrom(k) == IF k > Len(terms) THEN Zero ELSE RAdd(terms[k].term.q, SumFrom(k + 1))

\* The power of PI of the sum: that of its terms that are not zero.
SumPi == IF \E k \in DOMAIN terms : terms[k].term.q # Zero
         THEN terms[CHOOSE k \in DOMAIN terms : terms[k].term.q # Zero].term.pi ELSE 0

\* cos1 * cos2 / l^2 * dA1 * dA2 for the sample e, cos2 being the cosine
\* the occlusion test left, and zero when a cosine is negative.
ExpectedTerm(e) ==
    IF Occluded(e) \/ RLt(e.geom.cos_beta1, Zero) \/ RLt(e.geom.cos_beta2, Zero)
    THEN Zero
    ELSE RMul(RMul(RDiv(RMul(e.geom.cos_beta1, e.geom.cos_beta2), RMul(e.geom.l, e.geom.l)),
                   e.geom.da1.q), e.geom.da2.q)

\* view_factor has just returned to view_factors.
JustReturned == pc = "view_factors" /\ views_i # << >>

\* C15: for an emitter of non-zero area, view_factor(n, i, j) is the sum
\* over exactly n samples of cos1*cos2/l^2*dA1*dA2, a term being zero when a
\* cosine is negative, divided by pi * area(i) * n.
C15_Estimator ==
    (JustReturned /\ FormArea(Form(vf_i)).q # Zero) =>
        /\ Len(terms) = vf_n
        /\ \A k \in DOMAIN terms : terms[k].term.q = ExpectedTerm(terms[k])
        /\ views_i[Len(views_i)] =
              WithPi(RDiv(SumFrom(1), RMul(FormArea(Form(vf_i)).q, R(vf_n))),
                     SumPi - 1 - FormArea(Form(vf_i)).pi)

\* A call on two primitives of different areas has returned a factor that
\* is not zero, made of one sample that counted and one whose cosine at the
\* receiver was negative.
C15_Witness ==
    /\ JustReturned
    /\ FormArea(Form(vf_i)) # FormArea(Form(vf_j - 1))
    /\ views_i[Len(views_i)].q # Zero
    /\ \E k \in DOMAIN terms :
          /\ ~Occluded(terms[k])
          /\ RLt(terms[k].geom.cos_beta2, Zero)
          /\ terms[k].term.q = Zero

\* The entry of the result for the pair (i, j).
EntryOf(i, j) == viewfactors[i + 1][j - i]

\* The line is the value to 4 decimal places: within half a ten-thousandth
\* of a number, and the text NaN or inf for what is not a number.
ToFourPlaces(line, v) ==
    IF v \in {NaN, Inf} THEN line.value.text # "number"
    ELSE /\ line.value.text = "number"
         /\ RLe(<< 2 * line.value.digits - 1, 20000 >>, Numeric(v))
         /\ RLe(Numeric(v), << 2 * line.value.digits + 1, 20000 >>)

\* C16: Display writes N*(N-1)/2 lines, one for each entry in row order,
\* each 'F(i,j) = value' with (i, j) the pair the entry was computed for and
\* the value to 4 decimal places, and it does not fail.
C16_DisplayLines ==
    pc = "shown" =>
        /\ 2 * Len(shown) = NForms * (NForms - 1)
        /\ Len(shown) = Len(calls)
        /\ \A k \in DOMAIN shown :
              /\ shown[k].value.text # "panic"
              /\ shown[k].i = calls[k][1]
              /\ shown[k].j = calls[k][2]
              /\ ToFourPlaces(shown[k], EntryOf(calls[k][1], calls[k][2]))

\* Three lines were written for a scene of three, one of them a number
\* that is not zero.
C16_Witness ==
    /\ pc = "shown"
    /\ Len(shown) = 3
    /\ \E k \in DOMAIN shown : shown[k].value.text = "number" /\ shown[k].value.digits > 0

(***************************************************************************)
(* Properties of Material::scatter, under SpecScatter.                     *)
(***************************************************************************)
\* The mirror image of the unit vector of b in the plane of normal n.
Mirrored(b, n) ==
    VAdd(UnitVector(b), VScale(n, RMul(R(-2), Dot(UnitVector(b), n))))

\* mat.scatter has returned on a record of the given kind of material.
Scattered(kind) == pc = "scattered" /\ rec[1].material.kind = kind

\* C18: Metal scatter starts the scattered ray at the hit point with
\* direction reflect(unit(incoming), normal) + fuzz * p, sets attenuation to
\* the albedo and reports success exactly when dot(direction, normal) > 0;
\* otherwise it reports absorption and Ray::color returns black.
C18_MetalScatter ==
    /\ [](Scattered("Metal") =>
            /\ scat[1].scattered.a = rec[1].p
            /\ scat[1].scattered.b =
                  VAdd(Mirrored(ray.b, rec[1].normal), VScale(p, rec[1].material.fuzz))
            /\ scat[1].attenuation = rec[1].material.albedo
            /\ scat[1].ok <=> RGt(Dot(scat[1].scattered.b, rec[1].normal), Zero))
    /\ [][(Scattered("Metal") /\ ~scat[1].ok) => (pc' = "return" /\ ret' = Zeros)]_vars

\* A metal with fuzz, met at an angle from behind, absorbed the ray although
\* more depth was allowed, and Ray::color returned black.
C18_Witness ==
    /\ pc = "return"
    /\ rec[1].material = Mirror
    /\ leaf = "absorbed"
    /\ max_depth = 1
    /\ ray.b = Vec(3, 4, 0)
    /\ p # Zeros
    /\ ret = Zeros

\* The normal against the incoming direction b.
Outward(b, n) == IF RGt(Dot(b, n), Zero) THEN VNeg(n) ELSE n

\* The part of v along the surface of normal n.
Tangential(v, n) == VSub(v, VScale(n, Dot(v, n)))

\* d obeys Snell's law for the incoming direction b: a unit vector on the
\* far side of the surface whose part along the surface is ni_over_nt times
\* that of the unit vector of b.
ObeysSnell(d, dielectric, b, n) ==
    /\ SquareLength(d) = One
    /\ RLe(Dot(d, Outward(b, n)), Zero)
    /\ Tangential(d, n) = VScale(Tangential(UnitVector(b), n), DielectricRatio(dielectric, b, n))

FocalPoint(cam, st) ==
    [ k \in 1..3 |-> RAdd(RAdd(cam.lower_left_corner[k], RMul(st[1], cam.horizontal[k])),
                          RMul(st[2], cam.vertical[k])) ]

HitIdle ==
    /\ t_min = Q(1, 1000)
    /\ t_max = R(F32Max)
    /\ rec_in = None
    /\ rec = None
    /\ temp_rec = None
    /\ hit_any = FALSE
    /\ t_closest = t_max
    /\ idx = 0
    /\ n_pp = None

MaxComponent == 4

\* The non-zero vectors the call is made on: those of a rational length.
UnitInputs ==
    {v \in {Vec(x, y, z) : x, y, z \in -MaxComponent..MaxComponent} :
        v # Zeros /\ HasSqrt(SquareLength(v))}

\* self /= t of DivAssign<f32>.
DivAssign(self, t) == << RDiv(self[1], t), RDiv(self[2], t), RDiv(self[3], t) >>

\* v.make_unit_vector(): self is bound to a copy of v.
MakeUnitVectorCall ==
    /\ pc = "unit_call"
    /\ callee_self' = Some(caller_v)
    /\ pc' = "unit_body"
    /\ UNCHANGED << vfVars, camVars, genVars, printVars, hitArgs, hitLocals,
                    colorVars, rejected, caller_v >>

\* self /= self.length()
MakeUnitVectorBody ==
    /\ pc = "unit_body"
    /\ callee_self' = Some(DivAssign(callee_self[1], Length(callee_self[1])))
    /\ pc' = "unit_return"
    /\ UNCHANGED << vfVars, camVars, genVars, printVars, hitArgs, hitLocals,
                    colorVars, rejected, caller_v >>

\* The method returns (): its self goes out of scope.
MakeUnitVectorReturn ==
    /\ pc = "unit_return"
    /\ callee_self' = None
    /\ pc' = "unit_done"
    /\ UNCHANGED << vfVars, camVars, genVars, printVars, hitArgs, hitLocals,
                    colorVars, rejected, caller_v >>

MakeUnitVectorSteps == MakeUnitVectorCall \/ MakeUnitVectorBody \/ MakeUnitVectorReturn

InitUnit ==
    /\ caller_v \in UnitInputs
    /\ callee_self = None
    /\ rw_args = None
    /\ picks = << >>
    /\ pw_args = None
    /\ pw_j = 0
    /\ pw_i = 0
    /\ pw_s = 0
    /\ col = Zeros
    /\ buffer = << >>
    /\ traces = << >>
    /\ world = << >>
    /\ ray = RayNew(Zeros, Vec(0, 1, 0))
    /\ max_depth = 0
    /\ pc = "unit_call"
    /\ HitIdle
    /\ ColorIdle
    /\ VfIdle
    /\ CamIdle

SpecUnit == InitUnit /\ [][MakeUnitVectorSteps]_vars

\* C30: after v.make_unit_vector() the caller's v has unit length and is
\* what v.unit_vector() gives.
C30_ReceiverNormalised ==
    pc = "unit_done" =>
        /\ SquareLength(caller_v) = One
        /\ caller_v = UnitVector(caller_v)

\* What the code does: the copy was normalised, the caller's v is as it was.
C30_ReceiverUntouched == [][caller_v' = caller_v]_vars

(***************************************************************************)
(* random_world (lib.rs).  A MatChoice or FormChoice is [prob, kind]; a    *)
(* pass of the loop over n is one action, its random draws are its inputs. *)
(***************************************************************************)
MaxObjects == 2

Choice(prob, kind) == [prob |-> prob, kind |-> kind]

\* A step of sort_by, which is stable: x goes behind every element that is
\* not greater.
RECURSIVE SortInsert(_, _)
SortInsert(sorted, x) ==
    IF sorted = << >> THEN << x >>
    ELSE IF RLt(x.prob, Head(sorted).prob) THEN << x >> \o sorted
    ELSE << Head(sorted) >> \o SortInsert(Tail(sorted), x)

\* mats (or forms): the three pushes and sort_by.
SortedChoices(thresholds) ==
    SortInsert(SortInsert(SortInsert(<< >>, Choice(thresholds[1], 0)),
                          Choice(thresholds[2], 1)),
               Choice(thresholds[3], 2))

\* The kind a selection loop ends on, -1 for the value set before the loop:
\* every element the draw is below assigns, and nothing leaves the loop.
RECURSIVE ChooseKind(_, _, _)
ChooseKind(choices, choose, kind) ==
    IF choices = << >> THEN kind
    ELSE ChooseKind(Tail(choices), choose,
                    IF RLt(choose, Head(choices).prob) THEN Head(choices).kind ELSE kind)

\* The random numbers the constructors draw, other than the two choices.
AlbedoDraw == << Half, Half, Half >>
FuzzDraw == Half
CenterDraw == << Half, Half, Half >>
LengthDraw == Half

\* mat after the loop over mats.
ChosenMaterial(kind) ==
    CASE kind = 0 -> Lambertian(VMul(AlbedoDraw, AlbedoDraw))
      [] kind = 1 -> Metal(Ones, RMul(Q(1, 100), FuzzDraw))
      [] OTHER -> Dielectric(Q(3, 2))

\* Square::horizontal_surface, for the angle drawn.
HorizontalSurface(center, length, material, angle) ==
    SquareNew(center, length, material, << angle[1], Zero, angle[2] >>,
              Cross(Vec(0, 1, 0), << angle[1], Zero, angle[2] >>), Vec(0, 1, 0))

\* form after the loop over forms.
ChosenForm(kind, center, length, material, angle) ==
    CASE kind = 0 -> SphereNew(center, Surd(RDiv(length, Two), 1), material)
      [] kind = 1 -> CubeNew(center, length, material, angle[1], angle[2])
      [] OTHER -> HorizontalSurface(center, length, material, angle)

\* center and length of a pass.
RandomCenter(args) ==
    VAdd(VMul(CenterDraw, args.center_min), VMul(VSub(Ones, CenterDraw), args.center_max))
RandomLength(args) ==
    RAdd(RMul(args.obj_len_lim[1], LengthDraw),
         RMul(args.obj_len_lim[2], RSub(One, LengthDraw)))

UniformDraws == {Q(1, 8), Q(3, 8), Q(5, 8), Q(7, 8)}
AngleDraws == {<< One, Zero >>, << Zero, One >>}

\* A pass of for _ in 0..n, down to world.forms.push(form).
RandomWorldPass ==
    /\ pc = "random_world"
    /\ Len(world) < rw_args[1].n
    /\ \E choose_mat \in UniformDraws, choose_form \in UniformDraws, angle \in AngleDraws :
        /\ world' = Append(world,
               ChosenForm(ChooseKind(rw_args[1].forms, choose_form, -1),
                          RandomCenter(rw_args[1]), RandomLength(rw_args[1]),
                          ChosenMaterial(ChooseKind(rw_args[1].mats, choose_mat, -1)),
                          angle))
        /\ picks' = Append(picks, [choose_mat |-> choose_mat, choose_form |-> choose_form])
    /\ UNCHANGED << vfVars, camVars, unitVars, printVars, rw_args, ray, t_min, t_max,
                    rec_in, hitLocals, colorVars, rejected, pc >>

\* The loop is over: random_world returns world.
RandomWorldReturn ==
    /\ pc = "random_world"
    /\ Len(world) = rw_args[1].n
    /\ pc' = "world"
    /\ UNCHANGED << vfVars, camVars, libVars, hitArgs, hitLocals, colorVars, rejected >>

RandomWorldSteps == RandomWorldPass \/ RandomWorldReturn

\* The thresholds a call is given: << kind 0, kind 1, kind 2 >>.
ThresholdTriples ==
    { << Q(1, 4), Half, Q(3, 4) >>, << Q(3, 4), Half, Q(1, 4) >>, << Half, Half, One >> }

InitRandomWorld ==
    /\ rw_args \in {Some([n |-> n,
                          mats |-> SortedChoices(mt),
                          forms |-> SortedChoices(ft),
                          center_min |-> Vec(-2, -2, -2),
                          center_max |-> Vec(2, 2, 2),
                          obj_len_lim |-> << One, R(3) >>]) :
                        n \in 0..MaxObjects, mt \in ThresholdTriples, ft \in ThresholdTriples}
    /\ picks = << >>
    /\ world = << >>
    /\ caller_v = Zeros
    /\ callee_self = None
    /\ pw_args = None
    /\ pw_j = 0
    /\ pw_i = 0
    /\ pw_s = 0
    /\ col = Zeros
    /\ buffer = << >>
    /\ traces = << >>
    /\ ray = RayNew(Zeros, Vec(0, 1, 0))
    /\ max_depth = 0
    /\ pc = "random_world"
    /\ HitIdle
    /\ ColorIdle
    /\ VfIdle
    /\ CamIdle

SpecRandomWorld == InitRandomWorld /\ [][RandomWorldSteps]_vars

\* The kinds of the choices whose threshold is the smallest one above the draw.
CumulativeKinds(choices, choose) ==
    {choices[a].kind : a \in {b \in 1..Len(choices) :
        /\ RLt(choose, choices[b].prob)
        /\ \A c \in 1..Len(choices) :
              RLt(choose, choices[c].prob) => RLe(choices[b].prob, choices[c].prob)}}

MaterialKindName(kind) ==
    CASE kind = 0 -> "Lambertian" [] kind = 1 -> "Metal" [] OTHER -> "Dielectric"
FormKindName(kind) ==
    CASE kind = 0 -> "Sphere" [] kind = 1 -> "Cube" [] OTHER -> "Square"

\* The kinds the thresholds, read as cumulative probabilities, give a draw;
\* the default kinds when the draw is below no threshold.
CumulativeNames(choices, choose, name_of_default) ==
    IF CumulativeKinds(choices, choose) = {} THEN {name_of_default}
    ELSE {IF name_of_default = "Square" THEN FormKindName(k) ELSE MaterialKindName(k) :
             k \in CumulativeKinds(choices, choose)}

\* C29: random_world returns exactly n objects, and the material kind and the
\* form kind of each object are those of the smallest threshold strictly
\* above its draw, the default (Dielectric, Square) when there is none.
C29_CumulativeThresholds ==
    pc \in {"random_world", "world"} =>
        /\ pc = "world" => Len(world) = rw_args[1].n
        /\ \A k \in 1..Len(world) :
              /\ world[k].material.kind \in
                    CumulativeNames(rw_args[1].mats, picks[k].choose_mat, "Dielectric")
              /\ world[k].kind \in
                    CumulativeNames(rw_args[1].forms, picks[k].choose_form, "Square")

\* What holds of the code: exactly n objects are returned.
C29_ExactlyN == pc = "world" => Len(world) = rw_args[1].n /\ Len(picks) = rw_args[1].n

(***************************************************************************)
(* The unwraps on the way of Ray::color: temp_rec.unwrap() of              *)
(* HittableList::hit, solve(&b).unwrap() of Square::hit, rec.unwrap() of   *)
(* Ray::color.  HittableList::hit is run on the rays a linear system       *)
(* degenerates on, next to the ordinary ones.                              *)
(***************************************************************************)
\* Rays within 1e-3 of the plane of the squares, tried on scenes of squares.
NearParallelRays ==
    { RayNew(Vec(1, 4, 1), << One, Q(1, 1024), Zero >>),
      RayNew(Vec(1, 12, 1), << Zero, Q(-1, 1024), Zero >>) }

\* With them, a ray of no direction and a ray that lies in that plane.
DegenerateRays ==
    { RayNew(Vec(1, 4, 1), Zeros), RayNew(Vec(1, -4, 1), Vec(1, 0, 0)) }
        \cup NearParallelRays

InitDegenerate ==
    /\ world \in Worlds
    /\ ray \in HitRays \cup DegenerateRays
    /\ IF ray \in NearParallelRays
       THEN \A i \in DOMAIN world : world[i].kind = "Square"
       ELSE ExactInput(world, ray)
    /\ \E range \in HitRanges : t_min = range[1] /\ t_max = range[2]
    /\ rec_in \in {None, Some(StaleRecord)}
    /\ rec = rec_in
    /\ temp_rec = None
    /\ hit_any = FALSE
    /\ t_closest = t_max
    /\ idx = 0
    /\ n_pp = None
    /\ pc = "hit"
    /\ max_depth = 0
    /\ ColorIdle
    /\ LibIdle
    /\ VfIdle
    /\ CamIdle

SpecDegenerate == InitDegenerate /\ [][HitNext]_vars

\* The pass over the primitive at idx is about to end on a ray its linear
\* system degenerates on.
DegeneratePass ==
    /\ pc = "hit"
    /\ idx < NForms
    /\ ray \in DegenerateRays
    /\ Form(idx).kind \in {"Square", "Cube"}

SquareRays ==
    HitRays \cup
    { RayNew(Vec(1, 4, 1), Vec(0, 1, 0)),
      RayNew(Vec(5, 4, 1), Vec(0, -1, 0)),
      RayNew(Vec(4, 4, 1), Vec(0, -1, 0)),
      RayNew(Vec(1, 4, 5), Vec(0, -1, 0)),
      RayNew(Vec(1, 4, -4), Vec(0, -2, 0)) }

SquareWorlds == UNION {[1..n -> {SquareLow, SquareHigh}] : n \in 1..MaxForms}

InitSquare ==
    /\ world \in SquareWorlds
    /\ ray \in SquareRays
    /\ \E range \in HitRanges : t_min = range[1] /\ t_max = range[2]
    /\ rec_in \in {None, Some(StaleRecord)}
    /\ rec = rec_in
    /\ temp_rec = None
    /\ hit_any = FALSE
    /\ t_closest = t_max
    /\ idx = 0
    /\ n_pp = None
    /\ pc = "hit"
    /\ max_depth = 0
    /\ ColorIdle
    /\ LibIdle
    /\ VfIdle
    /\ CamIdle

SquareSteps ==
    \/ SquareHitDraw
    \/ SquareHitRedraw
    \/ SquareHitFinish
    \/ HittableListHitReturn

SpecSquare == InitSquare /\ [][SquareSteps]_vars

\* The parameter and the point at which the line of the ray meets the plane
\* of the square (for a ray that is not parallel to it).
PlaneT(square, r) ==
    RDiv(Dot(square.w, VSub(square.center, r.a)), Dot(square.w, r.b))
PlanePoint(square, r) == PointAtParameter(r, PlaneT(square, r))

\* The conditions C24 names, for the range (tmin, tmax) of the call.
Within(square, point, axis) ==
    RLe(RAbs(Dot(VSub(point, square.center), axis)), RDiv(square.length, Two))
SquareConditions(square, r, tmin, tmax) ==
    IF RLt(RAbs(Dot(square.w, r.b)), Q(1, 1000)) THEN FALSE
    ELSE /\ RLe(tmin, PlaneT(square, r))
         /\ RLe(PlaneT(square, r), tmax)
         /\ Within(square, PlanePoint(square, r), square.u)
         /\ Within(square, PlanePoint(square, r), square.v)

\* Square::hit returns to the loop of HittableList::hit in this step.
SquareReturns ==
    /\ pc = "hit"
    /\ idx < NForms
    /\ Form(idx).kind = "Square"
    /\ idx' = idx + 1

AcceptedDraws(square, r) ==
    {n \in RandomVecs :
        IF SquareParallel(square, r) THEN TRUE
        ELSE IF NppRejected(n, r) THEN FALSE ELSE NppExact(n, r)}

FormReturns == pc = "hit" /\ idx < NForms /\ idx' = idx + 1

\* It returned true: the loop has written its record with hit_elem = idx.
FormReturnedTrue == rec' # None /\ rec'[1].hit_elem = idx

\* C25: a hit routine (Sphere, Cube or Square) that returns false leaves the
\* record it was handed as it was; Cube::hit, in particular, does not leave
\* the record of its bounding sphere behind.
C25_MissLeavesRecord ==
    [][(FormReturns /\ ~FormReturnedTrue) => temp_rec' = temp_rec]_vars

\* C26: every primitive turns down a hit at exactly t = t_max, so of several
\* primitives hit at the same smallest t HittableList::hit reports the one
\* that comes first in the scene, whatever their kinds.
C26_FirstOfTies ==
    (pc = "hit_done" /\ hit_any) =>
        /\ RLt(rec[1].t, t_max)
        /\ \A i \in AloneHits :
              Alone(i).rec[1].t = rec[1].t => rec[1].hit_elem <= i

(***************************************************************************)
(* The accumulator of view_factor, under SpecVF.                           *)
(***************************************************************************)
Parametrised(form) == form.kind \in {"Sphere", "Square"}

\* A pass of the loop of view_factor on two parametrised primitives ends in
\* this step: self.hit has returned and the term is added.
SampleEnds ==
    /\ pc = "hit_done"
    /\ geom # None
    /\ Parametrised(Form(vf_i))
    /\ Parametrised(Form(vf_j))

\* The record self.hit holds is the hit of this sample's ray: the primitive
\* it names is hit by the ray, on its own, at the t and point of the record.
OfThisRay(r) ==
    /\ r.hit_elem \in 0..(NForms - 1)
    /\ Alone(r.hit_elem).hit
    /\ Alone(r.hit_elem).rec[1].t = r.t
    /\ Alone(r.hit_elem).rec[1].p = r.p

\* C27: for sphere and square participants every sample's term is >= 0 (a
\* negative cosine zeroes it, diff_a is >= 0 for parameters in [0,1]), the
\* accumulator never decreases from a sample to the next and the value
\* view_factor returns for n >= 1 is >= 0; the term of a sample is decided by
\* the hit of its own ray, not by a record an earlier sample left.
C27_NonNegative ==
    /\ [][SampleEnds =>
            /\ RLe(Zero, TermOf(geom[1], hit_any, rec, vf_j).q)
            /\ RLe(temp.q, temp'.q)
            /\ RLe(Zero, geom[1].da1.q)
            /\ RLe(Zero, geom[1].da2.q)
            /\ IF hit_any THEN OfThisRay(rec[1])
               ELSE TermOf(geom[1], hit_any, rec, vf_j)
                        = TermOf(geom[1], hit_any, None, vf_j)]_vars
    /\ [][(pc = "view_factor" /\ pc' = "view_factors"
              /\ Parametrised(Form(vf_i)) /\ Parametrised(Form(vf_j)))
            => RLe(Zero, views_i'[Len(views_i')].q)]_vars
    /\ [](\A t \in {Zero, Half, One} :
            /\ RLe(Zero, FormDiffA(Ball, Half, t).q)
            /\ RLe(Zero, FormDiffA(Floor, Half, t).q))

\* A sample whose ray hit nothing counted with a positive term although an
\* earlier sample of the call had left a record, after a sample that was
\* zeroed for a negative cosine.
C27_Witness ==
    /\ pc = "view_factor"
    /\ Len(terms) = 2
    /\ RLt(terms[1].geom.cos_beta2, Zero)
    /\ terms[1].term.q = Zero
    /\ terms[1].hit
    /\ ~terms[2].hit
    /\ terms[2].hit_rec # None
    /\ RLt(Zero, terms[2].term.q)
    /\ temp = terms[2].term

(***************************************************************************)
(* print_world (lib.rs) with a CameraSimple (cameras.rs).  buffer is the   *)
(* file as a sequence of lines: the three lines of the header, then one    *)
(* line per pixel; a pixel line keeps the j and i it was made for.         *)
(***************************************************************************)
MaxWidthPx == 2
MaxHeightPx == 2
MaxSmooth == 2

\* CameraSimple::new, from the axes w, u, v it computed.
CameraSimpleBasis(look_from, w, u, v, half_width, half_height) ==
    [ origin |-> look_from,
      lower_left_corner |->
          VSub(VSub(VSub(look_from, VScale(u, half_width)), VScale(v, half_height)), w),
      horizontal |-> VScale(VScale(u, half_width), Two),
      vertical |-> VScale(VScale(v, half_height), Two) ]

CameraSimpleAxes(look_from, w, u, vfov, aspect) ==
    CameraSimpleBasis(look_from, w, u, UnitVector(Cross(w, u)),
                      RMul(aspect, TanHalf(vfov)), TanHalf(vfov))

CameraSimpleNew(look_from, look_at, vup, vfov, aspect) ==
    CameraSimpleAxes(look_from, UnitVector(VSub(look_from, look_at)),
                     UnitVector(Cross(vup, UnitVector(VSub(look_from, look_at)))),
                     vfov, aspect)

\* CameraSimple::get_ray.
SimpleGetRay(cam, st) ==
    RayNew(cam.origin,
           VSub(VAdd(VAdd(cam.lower_left_corner, VScale(cam.horizontal, st[1])),
                     VScale(cam.vertical, st[2])),
                cam.origin))

\* u and v of a sample of pixel (i, j), for the two numbers drawn.
PixelCoordinates(args, i, j, draws) ==
    << RDiv(RAdd(R(i), RMul(args.dev, draws[1])), R(args.width_px)),
       RDiv(RAdd(R(j), RMul(args.dev, draws[2])), R(args.height_px)) >>

\* floor(255.99^2 * c) for a colour component c >= 0, in integers.
ByteSquare(c) == (65530 * c[1] + (8801 * c[1]) \div 10000) \div c[2]

\* (255.99 * c.sqrt()) as u8: the cast truncates and saturates.
ToByte(c) ==
    IF c[1] <= 0 THEN 0
    ELSE IF ByteSquare(c) >= 255 * 255 THEN 255
    ELSE CHOOSE k \in 0..254 : k * k <= ByteSquare(c) /\ ByteSquare(c) < (k + 1) * (k + 1)

\* ir, ig, ib of a pixel whose n_smooth samples add up to sum.
PixelBytes(sum, n_smooth) ==
    << ToByte(RDiv(sum[1], R(n_smooth))), ToByte(RDiv(sum[2], R(n_smooth))),
       ToByte(RDiv(sum[3], R(n_smooth))) >>

Line(kind, j, i, rgb) == [kind |-> kind, j |-> j, i |-> i, rgb |-> rgb]

\* The header: "P3", "width height", "255".
Header(args) ==
    << Line("magic", -1, -1, << 3, 0, 0 >>),
       Line("size", -1, -1, << args.width_px, args.height_px, 0 >>),
       Line("maxval", -1, -1, << 255, 0, 0 >>) >>

\* for j in (0..height_px).rev(): the first row.
FirstRow(height_px) == height_px - 1

\* A variant that walks the rows upwards.
NextPixelUpwards(i, j, width_px) ==
    IF i + 1 < width_px THEN << i + 1, j >> ELSE << 0, j + 1 >>

\* << i, j >> of the pixel after (i, j): along the row, then the row below.
NextPixel(i, j, width_px) ==
    IF i + 1 < width_px THEN << i + 1, j >> ELSE << 0, j - 1 >>

\* The draws of a sample the model follows: those whose ray it can trace
\* with exact arithmetic.
PixelDraws(args, cam, w, i, j) ==
    {d \in RandomScalars \X RandomScalars :
        /\ HasSqrt(SquareLength(SimpleGetRay(cam, PixelCoordinates(args, i, j, d)).b))
        /\ ExactInput(w, SimpleGetRay(cam, PixelCoordinates(args, i, j, d)))}

\* The three writes of the header.
PrintWorldHeader ==
    /\ pc = "print_world"
    /\ buffer = << >>
    /\ buffer' = Header(pw_args[1])
    /\ UNCHANGED << vfVars, camVars, unitVars, genVars, pw_args, pw_j, pw_i, pw_s, col,
                    traces, hitArgs, hitLocals, colorVars, rejected, pc >>

\* A pass of for _s in 0..n_smooth, up to the call ray.color(&world, 0, max_depth).
PrintWorldSample ==
    /\ pc = "print_world"
    /\ buffer # << >>
    /\ pw_j >= 0
    /\ pw_s < pw_args[1].n_smooth
    /\ \E d \in PixelDraws(pw_args[1], camera[1], world, pw_i, pw_j) :
          /\ cam_st' = Some(PixelCoordinates(pw_args[1], pw_i, pw_j, d))
          /\ HitEnter(SimpleGetRay(camera[1], PixelCoordinates(pw_args[1], pw_i, pw_j, d)),
                      Q(1, 1000), R(F32Max), None)
    /\ depth' = 0
    /\ max_depth' = pw_args[1].max_depth
    /\ traces' = Append(traces, [j |-> pw_j, i |-> pw_i, depth |-> 0,
                                 max_depth |-> pw_args[1].max_depth])
    /\ UNCHANGED << vfVars, unitVars, genVars, camera, pw_args, pw_j, pw_i, pw_s, col,
                    buffer, world, p, scat, att, ret, leaf, leaf_depth, rejected >>

\* Ray::color has returned: col += its colour; its frames are gone.
PrintWorldAdd ==
    /\ pc = "done"
    /\ pw_args # None
    /\ col' = VAdd(col, ret)
    /\ pw_s' = pw_s + 1
    /\ p' = UnitSphereStart
    /\ att' = [d \in 0..MaxDepthBound |-> Zeros]
    /\ ret' = Zeros
    /\ leaf' = "none"
    /\ leaf_depth' = 0
    /\ rejected' = FALSE
    /\ pc' = "print_world"
    /\ UNCHANGED << vfVars, camVars, unitVars, genVars, pw_args, pw_j, pw_i, buffer,
                    traces, hitArgs, hitLocals, max_depth, depth, scat >>

\* The samples of the pixel are in: the pixel is written and the loops go on.
PrintWorldPixel ==
    /\ pc = "print_world"
    /\ buffer # << >>
    /\ pw_j >= 0
    /\ pw_s = pw_args[1].n_smooth
    /\ buffer' = Append(buffer, Line("pixel", pw_j, pw_i,
                                     PixelBytes(col, pw_args[1].n_smooth)))
    /\ col' = Zeros
    /\ pw_s' = 0
    /\ pw_i' = NextPixel(pw_i, pw_j, pw_args[1].width_px)[1]
    /\ pw_j' = NextPixel(pw_i, pw_j, pw_args[1].width_px)[2]
    /\ UNCHANGED << vfVars, camVars, unitVars, genVars, pw_args, traces, hitArgs,
                    hitLocals, colorVars, rejected, pc >>

\* The loops are over: drop(buffer), Ok(()).
PrintWorldReturn ==
    /\ pc = "print_world"
    /\ buffer # << >>
    /\ pw_j < 0
    /\ pc' = "printed"
    /\ UNCHANGED << vfVars, camVars, libVars, hitArgs, hitLocals, colorVars, rejected >>

\* The steps of the calls print_world makes on the scenes below.
PrintWorldSteps ==
    \/ PrintWorldHeader
    \/ PrintWorldSample
    \/ HitSphereOrCube
    \/ HittableListHitReturn
    \/ ColorMiss
    \/ ColorHitOpaque
    \/ RandomInUnitSphereDraw
    \/ ScatterOpaqueReturn
    \/ ColorRecurse
    \/ ColorBlack
    \/ ColorReturn
    \/ ColorDone
    \/ PrintWorldAdd
    \/ PrintWorldPixel
    \/ PrintWorldReturn

\* The camera of the model looks down the z axis with 90 degrees of view.
PrintCamera == CameraSimpleNew(Zeros, Vec(0, 0, -1), Vec(0, 1, 0), 90, Half)

\* A polished sphere in the upper right corner of the view.
CornerSphere == SphereNew(Vec(2, 4, -4), Surd(One, 1), Bronze)

InitPrint ==
    /\ pw_args \in {Some([width_px |-> w, height_px |-> h, dev |-> Two, n_smooth |-> n,
                          max_depth |-> m]) :
                       w \in 1..MaxWidthPx, h \in 1..MaxHeightPx, n \in 1..MaxSmooth,
                       m \in 0..MaxDepthBound}
    /\ world \in {<< >>, << CornerSphere >>}
    /\ camera = Some(PrintCamera)
    /\ cam_st = None
    /\ pw_j = FirstRow(pw_args[1].height_px)
    /\ pw_i = 0
    /\ pw_s = 0
    /\ col = Zeros
    /\ buffer = << >>
    /\ traces = << >>
    /\ caller_v = Zeros
    /\ callee_self = None
    /\ rw_args = None
    /\ picks = << >>
    /\ ray = RayNew(Zeros, Vec(0, 1, 0))
    /\ max_depth = 0
    /\ pc = "print_world"
    /\ HitIdle
    /\ ColorIdle
    /\ VfIdle

SpecPrint == InitPrint /\ [][PrintWorldSteps]_vars

\* The pixel the k-th pixel line is for: rows from the top, columns from
\* the left.
RowOf(k, args) == args.height_px - 1 - (k - 1) \div args.width_px
ColumnOf(k, args) == (k - 1) % args.width_px

PixelLines == Len(buffer) - 3

\* C21: print_world writes, after the header, exactly width*height pixel
\* lines, rows from j = height-1 down to 0 and columns from i = 0 up to
\* width-1 within a row; each pixel is made of exactly n_smooth rays, each
\* traced by Ray::color with bounce count 0 and the max_depth given.
C21_PixelOrder ==
    /\ [](buffer # << >> =>
            /\ SubSeq(buffer, 1, 3) = Header(pw_args[1])
            /\ \A k \in 1..PixelLines :
                  /\ buffer[3 + k].kind = "pixel"
                  /\ buffer[3 + k].j = RowOf(k, pw_args[1])
                  /\ buffer[3 + k].i = ColumnOf(k, pw_args[1])
            /\ PixelLines <= pw_args[1].width_px * pw_args[1].height_px
            /\ \A m \in 1..Len(traces) :
                  /\ traces[m].j = RowOf((m - 1) \div pw_args[1].n_smooth + 1, pw_args[1])
                  /\ traces[m].i = ColumnOf((m - 1) \div pw_args[1].n_smooth + 1, pw_args[1])
                  /\ traces[m].depth = 0
                  /\ traces[m].max_depth = pw_args[1].max_depth)
    /\ [](pc = "printed" =>
            /\ PixelLines = pw_args[1].width_px * pw_args[1].height_px
            /\ Len(traces) = PixelLines * pw_args[1].n_smooth)
    /\ [][Len(buffer') > Len(buffer) /\ buffer # << >>
            => Len(traces) = (PixelLines + 1) * pw_args[1].n_smooth]_vars
    /\ [][Len(traces') > Len(traces)
            => /\ pc' = "hit"
               /\ depth' = 0
               /\ max_depth' = pw_args[1].max_depth
               /\ ray' = SimpleGetRay(camera[1], cam_st'[1])]_vars
    /\ [](depth \in 0..max_depth)

\* A picture of two rows and two columns, two samples a pixel, has been
\* written, with the sphere in its top right pixel only.
C21_Witness ==
    /\ pc = "printed"
    /\ pw_args[1].width_px = 2
    /\ pw_args[1].height_px = 2
    /\ pw_args[1].n_smooth = 2
    /\ pw_args[1].max_depth = 1
    /\ world = << CornerSphere >>
    /\ Len(buffer) = 7
    /\ Len(traces) = 8
    /\ buffer[4].rgb = buffer[6].rgb
    /\ buffer[5].rgb # buffer[4].rgb
    /\ buffer[5].rgb # buffer[7].rgb

====
